---- MODULE Spec2Model ----
(***************************************************************************)
(* Model of yields/yields_base.py: the Yields object (isotope -> interp1d  *)
(* mapping, current metallicity, abundance mapping with element sums,      *)
(* sticky metal normalisation, mass-fraction index).                       *)
(*                                                                         *)
(* Numbers: Python floats are modelled as exact rationals <<n, d>> with    *)
(* d > 0 in lowest terms, so "equal" below means equal before rounding.    *)
(* log10 is tabulated to three decimals for the metallicities used; it is  *)
(* exact for the powers of ten.                                            *)
(* Strings are TLA+ strings; Python's slicing, "in", startswith and split  *)
(* are computed character by character with SubSeq.                        *)
(***************************************************************************)
EXTENDS Integers, Sequences, FiniteSets, TLC

(***************************************************************************)
(* Float arithmetic, as exact rationals.                                   *)
(***************************************************************************)
Abs(n) == IF n < 0 THEN -n ELSE n

RECURSIVE Gcd(_, _)
Gcd(a, b) == IF b = 0 THEN a ELSE Gcd(b, a % b)

Rat(n, d) ==
    LET g == Gcd(Abs(n), Abs(d))
        s == IF d < 0 THEN -1 ELSE 1
    IN  <<(s * n) \div g, (s * d) \div g>>

Int2Rat(n) == <<n, 1>>

RAdd(a, b) ==
    LET g == Gcd(a[2], b[2])
    IN  Rat(a[1] * (b[2] \div g) + b[1] * (a[2] \div g), (a[2] \div g) * b[2])

RSub(a, b) == RAdd(a, <<-b[1], b[2]>>)

RMul(a, b) ==
    LET g1 == Gcd(Abs(a[1]), b[2])
        g2 == Gcd(Abs(b[1]), a[2])
    IN  Rat((a[1] \div g1) * (b[1] \div g2), (a[2] \div g2) * (b[2] \div g1))

\* a / b for b # 0 (the callers decide what a zero divisor does)
RDiv(a, b) == RMul(a, Rat(b[2], b[1]))

RLess(a, b) == a[1] * b[2] < b[1] * a[2]

RLeq(a, b) == a[1] * b[2] <= b[1] * a[2]

\* np.sum / the "+=" loop over the values f[k], k \in S
RECURSIVE RSum(_, _)
RSum(f, S) ==
    IF S = {} THEN <<0, 1>>
    ELSE LET k == CHOOSE x \in S : TRUE
         IN  RAdd(f[k], RSum(f, S \ {k}))

(***************************************************************************)
(* Python string operations.                                               *)
(***************************************************************************)
\* sub in s
Contains(sub, s) ==
    \E i \in 1..(Len(s) - Len(sub) + 1) : SubSeq(s, i, i + Len(sub) - 1) = sub

\* s.startswith(prefix)
StartsWith(s, prefix) ==
    Len(s) >= Len(prefix) /\ SubSeq(s, 1, Len(prefix)) = prefix

\* position of the first occurrence of the character c in s (0: absent)
IndexOf(c, s) ==
    IF Contains(c, s)
    THEN CHOOSE i \in 1..Len(s) :
            /\ SubSeq(s, i, i) = c
            /\ \A j \in 1..(i - 1) : SubSeq(s, j, j) # c
    ELSE 0

\* isotope.split("_") for a key holding one underscore: <<element, mass_num>>
SplitKey(isotope) ==
    LET i == IndexOf("_", isotope)
    IN  <<SubSeq(isotope, 1, i - 1), SubSeq(isotope, i + 1, Len(isotope))>>

\* number.lstrip("0")
RECURSIVE LStripZero(_)
LStripZero(s) ==
    IF Len(s) > 0 /\ SubSeq(s, 1, 1) = "0"
    THEN LStripZero(SubSeq(s, 2, Len(s)))
    ELSE s

\* c.isalpha() for one character
IsAlpha(c) ==
    c \in {"A", "B", "C", "D", "E", "F", "G", "H", "I", "J", "K", "L", "M",
           "N", "O", "P", "Q", "R", "S", "T", "U", "V", "W", "X", "Y", "Z",
           "a", "b", "c", "d", "e", "f", "g", "h", "i", "j", "k", "l", "m",
           "n", "o", "p", "q", "r", "s", "t", "u", "v", "w", "x", "y", "z"}

(***************************************************************************)
(* Element-label parsers.                                                  *)
(***************************************************************************)
_parse_iwamoto_element(original_string) ==
    LET first_bracket  == IndexOf("{", original_string)
        second_bracket == IndexOf("}", original_string)
        number == SubSeq(original_string, first_bracket + 1, second_bracket - 1)
        name   == SubSeq(original_string, second_bracket + 1, Len(original_string))
    IN  name \o "_" \o number

_parse_nomoto_element(number, name) ==
    IF number = "01" /\ name = "p" THEN "H_1"
    ELSE IF number = "02" /\ name = "d" THEN "H_2"
    ELSE name \o "_" \o LStripZero(number)

_parse_nomoto_individual_element(name) ==
    IF name = "p" THEN "H_1"
    ELSE IF name = "d" THEN "H_2"
    ELSE IF IsAlpha(SubSeq(name, 2, 2))
         THEN SubSeq(name, 2, Len(name)) \o "_" \o SubSeq(name, 1, 1)
         ELSE SubSeq(name, 3, Len(name)) \o "_" \o SubSeq(name, 1, 2)

(***************************************************************************)
(* Metallicity log transform.                                              *)
(***************************************************************************)
\* np.log10 on the positive metallicities used here, to three decimals and
\* in lowest terms (-2.398 is -1199/500)
log10(z) ==
    CASE z = <<1, 1>>        -> <<0, 1>>
      [] z = <<1, 10>>       -> <<-1, 1>>
      [] z = <<1, 50>>       -> <<-1699, 1000>>
      [] z = <<1, 100>>      -> <<-2, 1>>
      [] z = <<1, 250>>      -> <<-1199, 500>>
      [] z = <<1, 500>>      -> <<-2699, 1000>>
      [] z = <<1, 1000>>     -> <<-3, 1>>
      [] z = <<1, 5000>>     -> <<-3699, 1000>>
      [] z = <<1, 500000>>   -> <<-5699, 1000>>
      [] z = <<1, 1000000>>  -> <<-6, 1>>
      [] z = <<1, 10000000>> -> <<-7, 1>>
      [] z = <<2, 1>>        -> <<301, 1000>>
      [] z = <<100, 1>>      -> <<2, 1>>
      \* the logarithm of a negative number is nan (0/0), with a warning
      [] z[1] < 0            -> <<0, 0>>

\* variant: log10(0) is replaced by -4
_metallicity_log_floor_4(value) ==
    IF value = <<0, 1>> THEN <<-4, 1>> ELSE log10(value)

\* log10(0) is -inf, which is replaced by -6
_metallicity_log(value) ==
    IF value = <<0, 1>> THEN <<-6, 1>> ELSE log10(value)

z_values_nomoto == << <<0, 1>>, <<1, 1000>>, <<1, 250>>, <<1, 50>> >>

z_sun == <<1, 50>>

z_values_ww ==
    << <<0, 1>>, RMul(<<1, 10000>>, z_sun), RMul(<<1, 100>>, z_sun),
       RMul(<<1, 10>>, z_sun), z_sun >>

(***************************************************************************)
(* scipy.interpolate.interp1d(kind="linear").  An interpolator is a record *)
(* [x, y, bounds_error, fill]; a call returns [ok, val].                   *)
(***************************************************************************)
LogAll(points) == [i \in 1..Len(points) |-> _metallicity_log(points[i])]

\* interp1d(x, y): default bounds_error, a query outside [x[0], x[-1]] raises
interp1d_strict(x, y) ==
    [x |-> x, y |-> y, bounds_error |-> TRUE, fill |-> <<y[1], y[Len(y)]>>]

\* variant: the first value fills both sides of the grid
_interpolation_wrapper_fill_first(metallicities, abundances) ==
    [x |-> LogAll(metallicities), y |-> abundances, bounds_error |-> FALSE,
     fill |-> <<abundances[1], abundances[1]>>]

_interpolation_wrapper(metallicities, abundances) ==
    [x |-> LogAll(metallicities), y |-> abundances, bounds_error |-> FALSE,
     fill |-> <<abundances[1], abundances[Len(abundances)]>>]

\* interp(x_new)
InterpCall(interp, x_new) ==
    LET n == Len(interp.x)
    IN  IF RLess(x_new, interp.x[1])
        THEN [ok |-> ~interp.bounds_error, val |-> interp.fill[1]]
        ELSE IF RLess(interp.x[n], x_new)
        THEN [ok |-> ~interp.bounds_error, val |-> interp.fill[2]]
        ELSE LET hi == IF \E i \in 2..n : RLeq(x_new, interp.x[i])
                       THEN CHOOSE i \in 2..n :
                               /\ RLeq(x_new, interp.x[i])
                               /\ \A j \in 2..(i - 1) : RLess(interp.x[j], x_new)
                       ELSE n
                 lo == hi - 1
             IN  [ok |-> TRUE,
                  val |-> RAdd(RMul(RDiv(RSub(interp.y[hi], interp.y[lo]),
                                         RSub(interp.x[hi], interp.x[lo])),
                                    RSub(x_new, interp.x[lo])),
                               interp.y[lo])]

(***************************************************************************)
(* Source tables.  The data files are input to the program; each is given  *)
(* here as its tokenised rows (line.split()), with numeric tokens already  *)
(* read as numbers.  The rows are a small sample with several isotopes per *)
(* element and the symbol pairs H/He, C/Cl, N/Ni.                          *)
(***************************************************************************)
iwamoto_file == "iwamoto_99_Ia_yields.txt"

nomoto_file == "nomoto_06_imf_weighted_II.txt"

my_nomoto_ave_file == "nomoto_06_imf_weighted_II_my_ave.txt"

my_nomoto_hn_file == "nomoto_06_imf_weighted_II_my_hn.txt"

my_nomoto_reg_file == "nomoto_06_imf_weighted_II_my_no_hn.txt"

my_ww_file == "ww_95_imf_weighted_II.txt"

\* rows of a data file; Python indexes a row from 0, so token j is row[j + 1]
FileRows(data_file) ==
    CASE data_file = iwamoto_file ->
           \* element, solar ratio, W7, W70, WDD1, WDD2, WDD3, CDD1, CDD2;
           \* the table's decimals as fractions in lowest terms, the first
           \* row being 4.83E-02 5.08E-02 5.42E-03 8.99E-03 1.66E-02
           \* 9.93E-03 5.08E-03.  The WDD1 and CDD1 entries of Zn_64
           \* (3.71E-06, 1.87E-06) are cut to two digits, which keeps every
           \* product of the model within TLC's integers.
           << <<"^{12}C", "-", <<483, 10000>>, <<127, 2500>>,
                <<271, 50000>>, <<899, 100000>>, <<83, 5000>>,
                <<993, 100000>>, <<127, 25000>> >>,
              <<"^{35}Cl", "-", <<137, 1000000>>, <<53, 5000000>>,
                <<29, 312500>>, <<707, 10000000>>, <<533, 10000000>>,
                <<903, 10000000>>, <<41, 625000>> >>,
              <<"^{64}Zn", "-", <<53, 5000000>>, <<701, 10000000>>,
                <<37, 10000000>>, <<31, 1000000>>, <<9, 156250>>,
                <<19, 10000000>>, <<99, 2500000>> >>,
              \* the iron row, with sample values of the table's magnitude
              <<"^{56}Fe", "-", <<3, 5>>, <<17, 25>>, <<11, 20>>,
                <<7, 10>>, <<4, 5>>, <<1, 2>>, <<3, 4>> >> >>
      [] data_file = nomoto_file ->
           \* mass number, name, then one value per point of z_values_nomoto
           << <<"01", "p",  <<10, 1>>, <<9, 1>>, <<8, 1>>, <<7, 1>> >>,
              <<"02", "d",  <<1, 1>>,  <<1, 1>>, <<1, 2>>, <<1, 4>> >>,
              <<"03", "He", <<2, 1>>,  <<2, 1>>, <<3, 1>>, <<3, 1>> >>,
              <<"04", "He", <<4, 1>>,  <<5, 1>>, <<6, 1>>, <<7, 1>> >>,
              <<"12", "C",  <<1, 1>>,  <<2, 1>>, <<3, 1>>, <<4, 1>> >>,
              <<"13", "C",  <<0, 1>>,  <<1, 1>>, <<1, 1>>, <<2, 1>> >>,
              <<"35", "Cl", <<1, 2>>,  <<1, 2>>, <<1, 1>>, <<1, 1>> >>,
              <<"56", "Fe", <<1, 1>>,  <<1, 1>>, <<2, 1>>, <<2, 1>> >> >>
      [] data_file = my_nomoto_ave_file ->
           << <<"H_1",   <<8, 1>>, <<8, 1>>, <<7, 1>>, <<6, 1>> >>,
              <<"He_4",  <<3, 1>>, <<3, 1>>, <<4, 1>>, <<5, 1>> >>,
              <<"N_14",  <<0, 1>>, <<1, 1>>, <<2, 1>>, <<4, 1>> >>,
              <<"Fe_56", <<1, 1>>, <<1, 1>>, <<2, 1>>, <<2, 1>> >>,
              <<"Ni_58", <<1, 1>>, <<1, 1>>, <<1, 1>>, <<2, 1>> >> >>
      [] data_file = my_nomoto_hn_file ->
           << <<"H_1",   <<8, 1>>, <<8, 1>>, <<7, 1>>, <<6, 1>> >>,
              <<"O_16",  <<2, 1>>, <<3, 1>>, <<3, 1>>, <<5, 1>> >>,
              <<"Fe_56", <<2, 1>>, <<2, 1>>, <<3, 1>>, <<3, 1>> >> >>
      [] data_file = my_nomoto_reg_file ->
           << <<"H_1",   <<8, 1>>, <<8, 1>>, <<7, 1>>, <<6, 1>> >>,
              <<"O_16",  <<1, 1>>, <<2, 1>>, <<3, 1>>, <<4, 1>> >>,
              <<"Fe_56", <<1, 1>>, <<1, 1>>, <<1, 1>>, <<2, 1>> >> >>
      [] data_file = my_ww_file ->
           \* one value per point of z_values_ww
           << <<"H_1",   <<9, 1>>, <<9, 1>>, <<8, 1>>, <<8, 1>>, <<7, 1>> >>,
              <<"He_4",  <<3, 1>>, <<3, 1>>, <<4, 1>>, <<4, 1>>, <<5, 1>> >>,
              <<"O_16",  <<1, 1>>, <<2, 1>>, <<2, 1>>, <<3, 1>>, <<4, 1>> >>,
              <<"Fe_56", <<1, 1>>, <<1, 1>>, <<2, 1>>, <<2, 1>>, <<3, 1>> >>,
              <<"Ni_56", <<1, 1>>, <<3, 1>>, <<2, 1>>, <<4, 1>>, <<3, 1>> >> >>

(***************************************************************************)
(* The Yields object.  An object value is a record of the instance fields  *)
(* plus exc, the exception propagating out of the call in progress ("none" *)
(* when there is none).  members holds the attributes written by setattr.  *)
(***************************************************************************)
NoExc == "none"

Raise(self, e) == [self EXCEPT !.exc = e]

Keys(d) == DOMAIN d

\* dict update: d with d[k] = f[k] for every k of DOMAIN f
Update(d, f) ==
    [k \in (DOMAIN d) \cup (DOMAIN f) |-> IF k \in DOMAIN f THEN f[k] ELSE d[k]]

\* variant: the isotopes of an element are matched on the bare symbol, so
\* "H" also collects the isotopes of "He"
_sum_elements_bare_symbol(abundances) ==
    LET isotopes == {k \in Keys(abundances) : Contains("_", k)}
        elements == {SplitKey(k)[1] : k \in isotopes}
        this_element(element) ==
            {key \in isotopes : Contains(element, key)}
    IN  Update(abundances,
               [element \in elements |->
                    RSum(abundances, this_element(element))])

_sum_elements(abundances) ==
    LET isotopes == {k \in Keys(abundances) : Contains("_", k)}
        elements == {SplitKey(k)[1] : k \in isotopes}
        this_element(element) ==
            {key \in Keys(abundances) : Contains(element \o "_", key)}
    IN  Update(abundances,
               [element \in elements |->
                    RSum(abundances, this_element(element))])

_set_members(self) ==
    LET summed == _sum_elements(self.abundances)
    IN  [self EXCEPT !.abundances = summed,
                     !.members = Update(self.members, summed)]

\* variant: only hydrogen is left out of the metals
metals_sum_only_H(self) ==
    RSum(self.abundances,
         {isotope \in Keys(self.abundances) :
             ~Contains("_", isotope) /\ isotope \notin {"H"}})

metals_sum(self) ==
    RSum(self.abundances,
         {isotope \in Keys(self.abundances) :
             ~Contains("_", isotope) /\ isotope \notin {"H", "He"}})

\* variant: the flag is not set
normalize_metals_no_flag(self, total_metals) ==
    LET total_before == metals_sum(self)
    IN  IF total_before = <<0, 1>>
        THEN Raise(self, "ZeroDivisionError")
        ELSE LET scale_factor == RDiv(total_metals, total_before)
                 scaled == [self EXCEPT !.abundances =
                               [key \in Keys(self.abundances) |->
                                   RMul(self.abundances[key], scale_factor)]]
             IN  [_set_members(scaled) EXCEPT !.total_metals = total_metals]

\* variant: the scale factor is taken against the stored total_metals
\* instead of the current metals_sum()
normalize_metals_stored_total(self, total_metals) ==
    IF self.total_metals = <<0, 1>>
    THEN Raise(self, "ZeroDivisionError")
    ELSE LET scale_factor == RDiv(total_metals, self.total_metals)
             scaled == [self EXCEPT !.abundances =
                           [key \in Keys(self.abundances) |->
                               RMul(self.abundances[key], scale_factor)]]
         IN  [_set_members(scaled) EXCEPT !.total_metals = total_metals,
                                          !.has_normalization = TRUE]

\* variant: the mass-fraction tables are rescaled along with the abundances
normalize_metals_rescale_index(self, total_metals) ==
    LET total_before == metals_sum(self)
    IN  IF total_before = <<0, 1>>
        THEN Raise(self, "ZeroDivisionError")
        ELSE LET scale_factor == RDiv(total_metals, total_before)
                 scaled == [self EXCEPT !.abundances =
                               [key \in Keys(self.abundances) |->
                                   RMul(self.abundances[key], scale_factor)]]
                 index == self._mass_fractions_log_z
             IN  [_set_members(scaled) EXCEPT
                     !.total_metals = total_metals,
                     !.has_normalization = TRUE,
                     !._mass_fractions_log_z =
                         [k \in DOMAIN index |->
                             [index[k] EXCEPT
                                 !.y = [i \in 1..Len(@) |->
                                           RMul(@[i], scale_factor)]]]]

\* variant: the attributes are not written again after the scaling
normalize_metals_stale_members(self, total_metals) ==
    LET total_before == metals_sum(self)
    IN  IF total_before = <<0, 1>>
        THEN Raise(self, "ZeroDivisionError")
        ELSE LET scale_factor == RDiv(total_metals, total_before)
             IN  [self EXCEPT !.abundances =
                               [key \in Keys(self.abundances) |->
                                   RMul(self.abundances[key], scale_factor)],
                              !.total_metals = total_metals,
                              !.has_normalization = TRUE]

\* total_metals is a Python number, so a zero divisor raises
normalize_metals(self, total_metals) ==
    LET total_before == metals_sum(self)
    IN  IF total_before = <<0, 1>>
        THEN Raise(self, "ZeroDivisionError")
        ELSE LET scale_factor == RDiv(total_metals, total_before)
                 scaled == [self EXCEPT !.abundances =
                               [key \in Keys(self.abundances) |->
                                   RMul(self.abundances[key], scale_factor)]]
             IN  [_set_members(scaled) EXCEPT !.total_metals = total_metals,
                                              !.has_normalization = TRUE]

\* variant: the normalisation is not reapplied after interpolating
set_metallicity_no_renorm(self, metallicity) ==
    IF ~(RLeq(<<0, 1>>, metallicity) /\ RLeq(metallicity, <<1, 1>>))
    THEN Raise(self, "ValueError")
    ELSE LET met_log == _metallicity_log(metallicity)
             new_value == [isotope \in Keys(self._abundances_interp) |->
                              InterpCall(self._abundances_interp[isotope],
                                         met_log)]
         IN  IF \E isotope \in Keys(new_value) : ~new_value[isotope].ok
             THEN Raise(self, "ValueError")
             ELSE LET stored == [self EXCEPT !.abundances =
                                    Update(self.abundances,
                                           [isotope \in Keys(new_value) |->
                                               new_value[isotope].val])]
                  IN  [_set_members(stored) EXCEPT !.metallicity = metallicity]

\* variant: the metallicity is stored before it is validated
set_metallicity_store_first(self, metallicity) ==
    IF ~(RLeq(<<0, 1>>, metallicity) /\ RLeq(metallicity, <<1, 1>>))
    THEN Raise([self EXCEPT !.metallicity = metallicity], "ValueError")
    ELSE LET met_log == _metallicity_log(metallicity)
             new_value == [isotope \in Keys(self._abundances_interp) |->
                              InterpCall(self._abundances_interp[isotope],
                                         met_log)]
         IN  IF \E isotope \in Keys(new_value) : ~new_value[isotope].ok
             THEN Raise(self, "ValueError")
             ELSE LET stored == [self EXCEPT !.abundances =
                                    Update(self.abundances,
                                           [isotope \in Keys(new_value) |->
                                               new_value[isotope].val])]
                      summed == _set_members(stored)
                      normed == IF summed.has_normalization
                                THEN normalize_metals(summed, summed.total_metals)
                                ELSE summed
                  IN  IF normed.exc # NoExc THEN normed
                      ELSE [normed EXCEPT !.metallicity = metallicity]

\* variant: the scale factor is worked out on the abundances of the previous
\* metallicity and then applied to the new ones
set_metallicity_stale_factor(self, metallicity) ==
    IF ~(RLeq(<<0, 1>>, metallicity) /\ RLeq(metallicity, <<1, 1>>))
    THEN Raise(self, "ValueError")
    ELSE LET met_log == _metallicity_log(metallicity)
             new_value == [isotope \in Keys(self._abundances_interp) |->
                              InterpCall(self._abundances_interp[isotope],
                                         met_log)]
             total_before == metals_sum(self)
         IN  IF \E isotope \in Keys(new_value) : ~new_value[isotope].ok
             THEN Raise(self, "ValueError")
             ELSE LET stored == [self EXCEPT !.abundances =
                                    Update(self.abundances,
                                           [isotope \in Keys(new_value) |->
                                               new_value[isotope].val])]
                      summed == _set_members(stored)
                  IN  IF ~summed.has_normalization
                      THEN [summed EXCEPT !.metallicity = metallicity]
                      ELSE IF total_before = <<0, 1>>
                      THEN Raise(summed, "ZeroDivisionError")
                      ELSE [_set_members(
                               [summed EXCEPT !.abundances =
                                   [key \in Keys(summed.abundances) |->
                                       RMul(summed.abundances[key],
                                            RDiv(summed.total_metals,
                                                 total_before))]])
                            EXCEPT !.metallicity = metallicity]

\* lines 269-270 of set_metallicity: the normalisation, if there is one, is
\* applied again
Renormalize(self) ==
    IF self.has_normalization
    THEN normalize_metals(self, self.total_metals)
    ELSE self

\* line 274 of set_metallicity, reached when nothing was raised before it
StoreMetallicity(self, metallicity) ==
    IF self.exc # NoExc THEN self
    ELSE [self EXCEPT !.metallicity = metallicity]

\* every interpolator of one model has the same grid and bounds setting, so
\* a query that raises does so at the first isotope, before any assignment
set_metallicity(self, metallicity) ==
    IF ~(RLeq(<<0, 1>>, metallicity) /\ RLeq(metallicity, <<1, 1>>))
    THEN Raise(self, "ValueError")
    ELSE IF \E isotope \in Keys(self._abundances_interp) :
               ~InterpCall(self._abundances_interp[isotope],
                           _metallicity_log(metallicity)).ok
    THEN Raise(self, "ValueError")
    ELSE StoreMetallicity(
            Renormalize(
               _set_members(
                  [self EXCEPT !.abundances =
                      Update(@, [isotope \in Keys(self._abundances_interp) |->
                                    InterpCall(self._abundances_interp[isotope],
                                               _metallicity_log(metallicity)).val])])),
            metallicity)

\* variant: an attribute that was never set reads as zero
getattr_default_zero(self, name) ==
    IF name \in DOMAIN self.members
    THEN [exc |-> NoExc, val |-> self.members[name]]
    ELSE [exc |-> NoExc, val |-> <<0, 1>>]

\* reading self.<name>: the value setattr stored under that name, or
\* AttributeError when no setattr ever used the name
getattr(self, name) ==
    IF name \in DOMAIN self.members
    THEN [exc |-> NoExc, val |-> self.members[name]]
    ELSE [exc |-> "AttributeError", val |-> <<>>]

(***************************************************************************)
(* Vectorised calls.  A Python value handed to one of them is a float, a   *)
(* list of floats or a one-dimensional numpy array of floats.              *)
(***************************************************************************)
PyFloat(x) == [type |-> "float", v |-> x]

PyList(xs) == [type |-> "list", v |-> xs]

NdArray(xs) == [type |-> "ndarray", v |-> xs]

\* np.array(value, ndmin=1): the entries of the one-dimensional array
np_array_ndmin1(value) ==
    IF value.type = "float" THEN <<value.v>> ELSE value.v

\* variant: the -6 is substituted only when the argument as a whole is 0,
\* so a zero inside an array keeps log10(0) = -inf (-1/0)
_metallicity_log_array_scalar_test(value) ==
    NdArray([i \in 1..Len(np_array_ndmin1(value)) |->
                IF np_array_ndmin1(value)[i] = <<0, 1>>
                THEN IF value.type = "float" THEN <<-6, 1>> ELSE <<-1, 0>>
                ELSE log10(np_array_ndmin1(value)[i])])

\* _metallicity_log on a float, a list or an array: log_vals, always an
\* array, whose entries are those _metallicity_log above gives one by one
_metallicity_log_array(value) ==
    NdArray([i \in 1..Len(np_array_ndmin1(value)) |->
                _metallicity_log(np_array_ndmin1(value)[i])])

\* interp1d.__call__ on a one-dimensional array: an array of the same
\* length, or ValueError when an entry is out of bounds and bounds_error
\* is set
InterpCallArray(interp, x_new) ==
    IF \E i \in 1..Len(x_new.v) : ~InterpCall(interp, x_new.v[i]).ok
    THEN [exc |-> "ValueError", val |-> <<>>]
    ELSE [exc |-> NoExc,
          val |-> NdArray([i \in 1..Len(x_new.v) |->
                              InterpCall(interp, x_new.v[i]).val])]

\* variant: the index is queried at z itself, not at its logarithm
mass_fraction_no_log(self, isotope, metallicity) ==
    InterpCall(self._mass_fractions_log_z[isotope], metallicity)

mass_fraction(self, isotope, metallicity) ==
    InterpCall(self._mass_fractions_log_z[isotope],
               _metallicity_log(metallicity))

\* variant: only the first metallicity is looked up
mass_fraction_array_first_only(self, isotope, metallicity) ==
    IF isotope \notin DOMAIN self._mass_fractions_log_z
    THEN [exc |-> "KeyError", val |-> <<>>]
    ELSE InterpCallArray(self._mass_fractions_log_z[isotope],
            NdArray(IF Len(np_array_ndmin1(metallicity)) = 0 THEN <<>>
                    ELSE <<_metallicity_log_array(metallicity).v[1]>>))

\* mass_fraction on a float, a list or an array: what the interpolator
\* returns for the array of logs, or the KeyError of the dictionary lookup
mass_fraction_array(self, isotope, metallicity) ==
    IF isotope \notin DOMAIN self._mass_fractions_log_z
    THEN [exc |-> "KeyError", val |-> <<>>]
    ELSE InterpCallArray(self._mass_fractions_log_z[isotope],
                         _metallicity_log_array(metallicity))

(***************************************************************************)
(* Model loaders.  Each takes the object under construction and returns it *)
(* with metallicity_points and _abundances_interp filled in.               *)
(***************************************************************************)
EmptyDict == [k \in {} |-> <<0, 1>>]

\* "d[keys[i]] = interps[i]" for each row i in turn: a later row with the
\* same key replaces an earlier one
RowsToInterp(keys, interps) ==
    LET last(k) == CHOOSE i \in 1..Len(keys) :
                      /\ keys[i] = k
                      /\ \A j \in (i + 1)..Len(keys) : keys[j] # k
    IN  [k \in {keys[i] : i \in 1..Len(keys)} |-> interps[last(k)]]

make_test(self) ==
    LET points == << <<0, 1>>, <<1, 1>> >>
        metallicities == LogAll(points)
        tab(a) == interp1d_strict(metallicities, <<Int2Rat(a), Int2Rat(a + 1)>>)
    IN  [self EXCEPT
            !.metallicity_points = points,
            !._abundances_interp =
                [k \in {"H_1", "He_2", "Li_3", "Be_4", "B_5", "C_6", "N_7",
                        "O_8", "F_9", "Na_10"} |->
                    CASE k = "H_1"  -> tab(1) [] k = "He_2" -> tab(2)
                      [] k = "Li_3" -> tab(3) [] k = "Be_4" -> tab(4)
                      [] k = "B_5"  -> tab(5) [] k = "C_6"  -> tab(6)
                      [] k = "N_7"  -> tab(7) [] k = "O_8"  -> tab(8)
                      [] k = "F_9"  -> tab(9) [] k = "Na_10" -> tab(10)]]

\* full_name.split("_")[-1]
LastPart(full_name) ==
    LET cut == IF Contains("_", full_name)
               THEN CHOOSE i \in 1..Len(full_name) :
                       /\ SubSeq(full_name, i, i) = "_"
                       /\ \A j \in (i + 1)..Len(full_name) :
                             SubSeq(full_name, j, j) # "_"
               ELSE 0
    IN  SubSeq(full_name, cut + 1, Len(full_name))

column_idxs ==
    [m \in {"W7", "W70", "WDD1", "WDD2", "WDD3", "CDD1", "CDD2"} |->
        CASE m = "W7" -> 2 [] m = "W70" -> 3 [] m = "WDD1" -> 4
          [] m = "WDD2" -> 5 [] m = "WDD3" -> 6 [] m = "CDD1" -> 7
          [] m = "CDD2" -> 8]

\* [ok, model]: ok is FALSE where the code raises ValueError
_parse_iwamoto_model(full_name) ==
    IF SubSeq(full_name, 1, IF Len(full_name) < 14 THEN Len(full_name) ELSE 14)
          # "iwamoto_99_Ia_"
    THEN [ok |-> FALSE, model |-> ""]
    ELSE LET model_name == LastPart(full_name)
         IN  [ok |-> model_name \in DOMAIN column_idxs, model |-> model_name]

\* variant: the W7 column is read whatever the model
make_iwamoto_99_Ia_always_W7(self, model) ==
    LET points  == << <<0, 1>>, <<1, 1>> >>
        our_idx == column_idxs["W7"]
        key(split_line) == _parse_iwamoto_element(split_line[1])
        interp(split_line) ==
            _interpolation_wrapper(points, <<split_line[our_idx + 1],
                                             split_line[our_idx + 1]>>)
    IN  [self EXCEPT
            !.metallicity_points = points,
            !._abundances_interp =
                Update(@, LET rows == FileRows(iwamoto_file)
                          IN  RowsToInterp(
                                 [i \in 1..Len(rows) |-> key(rows[i])],
                                 [i \in 1..Len(rows) |-> interp(rows[i])]))]

make_iwamoto_99_Ia(self, model) ==
    LET points  == << <<0, 1>>, <<1, 1>> >>
        our_idx == column_idxs[model]
        key(split_line) == _parse_iwamoto_element(split_line[1])
        interp(split_line) ==
            _interpolation_wrapper(points, <<split_line[our_idx + 1],
                                             split_line[our_idx + 1]>>)
    IN  [self EXCEPT
            !.metallicity_points = points,
            !._abundances_interp =
                Update(@, LET rows == FileRows(iwamoto_file)
                          IN  RowsToInterp(
                                 [i \in 1..Len(rows) |-> key(rows[i])],
                                 [i \in 1..Len(rows) |-> interp(rows[i])]))]

make_nomoto_06_II(self) ==
    LET key(split_line) == _parse_nomoto_element(split_line[1], split_line[2])
        interp(split_line) ==
            _interpolation_wrapper(z_values_nomoto,
                                   SubSeq(split_line, 3, Len(split_line)))
    IN  [self EXCEPT
            !.metallicity_points = z_values_nomoto,
            !._abundances_interp =
                Update(@, LET rows == FileRows(nomoto_file)
                          IN  RowsToInterp(
                                 [i \in 1..Len(rows) |-> key(rows[i])],
                                 [i \in 1..Len(rows) |-> interp(rows[i])]))]

make_imf_integrated(self, filename) ==
    LET points == IF Contains("nomoto", filename) THEN z_values_nomoto
                  ELSE z_values_ww
        key(split_line) == split_line[1]
        interp(split_line) ==
            _interpolation_wrapper(points,
                                   SubSeq(split_line, 2, Len(split_line)))
    IN  [self EXCEPT
            !.metallicity_points = points,
            !._abundances_interp =
                Update(@, LET rows == FileRows(filename)
                          IN  RowsToInterp(
                                 [i \in 1..Len(rows) |-> key(rows[i])],
                                 [i \in 1..Len(rows) |-> interp(rows[i])]))]

\* the loop of _handle_iron_ww from grid point i on; fe collects the
\* (Ni_56 + Fe_56) / 2 values, ni the zeros
RECURSIVE IronLoop(_, _, _, _)

\* variant: the nickel is added to the iron but the sum is not halved
IronBody_no_halving(self, i, fe, ni) ==
    IF self.exc # NoExc THEN [self |-> self, fe |-> fe, ni |-> ni]
    ELSE IF ~({"Ni_56", "Fe_56"} \subseteq Keys(self.members))
    THEN [self |-> Raise(self, "AttributeError"), fe |-> fe, ni |-> ni]
    ELSE IronLoop(self, i + 1,
                  Append(fe, RAdd(self.members["Ni_56"],
                                  self.members["Fe_56"])),
                  Append(ni, <<0, 1>>))

\* the body of the loop at grid point i, self being the object as
\* set_metallicity(z) left it
IronBody(self, i, fe, ni) ==
    IF self.exc # NoExc THEN [self |-> self, fe |-> fe, ni |-> ni]
    ELSE IF ~({"Ni_56", "Fe_56"} \subseteq Keys(self.members))
    THEN [self |-> Raise(self, "AttributeError"), fe |-> fe, ni |-> ni]
    ELSE IronLoop(self, i + 1,
                  Append(fe, RDiv(RAdd(self.members["Ni_56"],
                                       self.members["Fe_56"]), <<2, 1>>)),
                  Append(ni, <<0, 1>>))

IronLoop(self, i, fe, ni) ==
    IF i > Len(self.metallicity_points)
    THEN [self |-> self, fe |-> fe, ni |-> ni]
    ELSE IronBody(set_metallicity(self, self.metallicity_points[i]), i, fe, ni)

\* the two interpolators made after the loop, r being what the loop left
IronInterps(r) ==
    IF r.self.exc # NoExc THEN r.self
    ELSE [r.self EXCEPT !._abundances_interp =
             Update(@, [k \in {"Ni_56", "Fe_56"} |->
                           IF k = "Ni_56"
                           THEN _interpolation_wrapper(
                                   r.self.metallicity_points, r.ni)
                           ELSE _interpolation_wrapper(
                                   r.self.metallicity_points, r.fe)])]

_handle_iron_ww(self) == IronInterps(IronLoop(self, 1, <<>>, <<>>))

(***************************************************************************)
(* Mass-fraction index.                                                    *)
(***************************************************************************)
\* variant: every fraction is taken against the metal sum recorded at
\* z = 0 instead of the metal sum at the grid point
RECURSIVE MassFracLoop_fixed_total(_, _, _)
MassFracLoop_fixed_total(self, i, storage) ==
    IF i > Len(self.metallicity_points)
    THEN [self |-> self, storage |-> storage]
    ELSE LET s == set_metallicity(self, self.metallicity_points[i])
         IN  IF s.exc # NoExc THEN [self |-> s, storage |-> storage]
             ELSE IF s.total_metals = <<0, 1>>
             THEN [self |-> Raise(s, "ZeroDivisionError"), storage |-> storage]
             ELSE MassFracLoop_fixed_total(s, i + 1,
                     [isotope \in Keys(s.abundances) |->
                         Append(IF isotope \in DOMAIN storage
                                THEN storage[isotope] ELSE <<>>,
                                RDiv(s.abundances[isotope], s.total_metals))])

\* the loop over metallicity_points from grid point i on; storage maps each
\* key to the list of its fractions so far
RECURSIVE MassFracLoop(_, _, _)

\* variant: the fractions are taken of the whole ejected mass, hydrogen
\* and helium included, not of the metals
MassFracBody_of_all_mass(self, i, storage) ==
    LET all_mass == RSum(self.abundances,
                         {k \in Keys(self.abundances) : ~Contains("_", k)})
    IN  IF self.exc # NoExc THEN [self |-> self, storage |-> storage]
        ELSE IF all_mass = <<0, 1>>
        THEN [self |-> Raise(self, "ZeroDivisionError"), storage |-> storage]
        ELSE MassFracLoop(self, i + 1,
                [isotope \in Keys(self.abundances) |->
                    Append(IF isotope \in DOMAIN storage
                           THEN storage[isotope] ELSE <<>>,
                           RDiv(self.abundances[isotope], all_mass))])

\* the body of the loop at grid point i, self being the object as
\* set_metallicity(z) left it
MassFracBody(self, i, storage) ==
    IF self.exc # NoExc THEN [self |-> self, storage |-> storage]
    ELSE IF metals_sum(self) = <<0, 1>>
    THEN [self |-> Raise(self, "ZeroDivisionError"), storage |-> storage]
    ELSE MassFracLoop(self, i + 1,
            [isotope \in Keys(self.abundances) |->
                Append(IF isotope \in DOMAIN storage
                       THEN storage[isotope] ELSE <<>>,
                       RDiv(self.abundances[isotope], metals_sum(self)))])

MassFracLoop(self, i, storage) ==
    IF i > Len(self.metallicity_points)
    THEN [self |-> self, storage |-> storage]
    ELSE MassFracBody(set_metallicity(self, self.metallicity_points[i]),
                      i, storage)

\* variant: the metallicity is not restored after the index is built
_create_mass_fractions_no_restore(self) ==
    LET r == MassFracLoop(self, 1, EmptyDict)
    IN  IF r.self.exc # NoExc THEN r.self
        ELSE [r.self EXCEPT !._mass_fractions_log_z =
                 [isotope \in DOMAIN r.storage |->
                     _interpolation_wrapper(r.self.metallicity_points,
                                            r.storage[isotope])]]

\* the interpolators made after the loop, r being what the loop left, and
\* the return to the metallicity the object had before
MassFracInterps(r, initial_z) ==
    IF r.self.exc # NoExc THEN r.self
    ELSE set_metallicity(
            [r.self EXCEPT !._mass_fractions_log_z =
                [isotope \in DOMAIN r.storage |->
                    _interpolation_wrapper(r.self.metallicity_points,
                                           r.storage[isotope])]],
            initial_z)

_create_mass_fractions(self) ==
    MassFracInterps(MassFracLoop(self, 1, EmptyDict), self.metallicity)

(***************************************************************************)
(* Individual (per progenitor mass) tables.  A file of these families has  *)
(* three header rows and one row per isotope, one column per mass model;   *)
(* IndividualRows builds the sample rows of one file.                      *)
(***************************************************************************)
IndividualRows(headers, labels, ncols, seed) ==
    [r \in 1..(Len(headers) + Len(labels)) |->
        IF r <= Len(headers)
        THEN <<headers[r]>> \o [c \in 1..ncols |-> Int2Rat(c)]
        ELSE <<labels[r - Len(headers)]>> \o
             [c \in 1..ncols |-> Int2Rat(((3 * r + 2 * c + seed) % 7) + 1)]]

nomoto_ind_files ==
    <<"nomoto_individual/z_0.txt", "nomoto_individual/z_0.001.txt",
      "nomoto_individual/z_0.004.txt", "nomoto_individual/z_0.02.txt">>

nomoto_ind_hn_files ==
    <<"nomoto_individual/z_0_hn.txt", "nomoto_individual/z_0.001_hn.txt",
      "nomoto_individual/z_0.004_hn.txt", "nomoto_individual/z_0.02_hn.txt">>

\* in increasing metallicity: ww95_16, 14, 12, 10, 5; "a" below 30 solar
\* masses, "b" from 30 on
ww_ind_files_a ==
    <<"ww_individual/ww95_16a.txt", "ww_individual/ww95_14a.txt",
      "ww_individual/ww95_12a.txt", "ww_individual/ww95_10a.txt",
      "ww_individual/ww95_5a.txt">>

ww_ind_files_b ==
    <<"ww_individual/ww95_16b.txt", "ww_individual/ww95_14b.txt",
      "ww_individual/ww95_12b.txt", "ww_individual/ww95_10b.txt",
      "ww_individual/ww95_5b.txt">>

IndividualFileRows(data_file) ==
    LET nomoto_labels == <<"p", "4He", "12C", "16O", "56Fe">>
        ww_labels     == <<"p", "4He", "16O", "56Fe", "56Ni">>
        pos(files)    == CHOOSE i \in 1..Len(files) : files[i] = data_file
        within(files) == \E i \in 1..Len(files) : files[i] = data_file
    IN  CASE within(nomoto_ind_files) ->
               IndividualRows(<<"M", "E", "Mcut">>, nomoto_labels, 7,
                              pos(nomoto_ind_files))
          [] within(nomoto_ind_hn_files) ->
               IndividualRows(<<"M", "E", "Mcut">>, nomoto_labels, 4,
                              2 * pos(nomoto_ind_hn_files))
          [] within(ww_ind_files_a) ->
               IndividualRows(<<"elt", "KE", "Mass">>, ww_labels,
                              CASE pos(ww_ind_files_a) = 1 -> 8
                                [] pos(ww_ind_files_a) = 5 -> 9
                                [] OTHER -> 7,
                              pos(ww_ind_files_a))
          [] within(ww_ind_files_b) ->
               IndividualRows(<<"elt", "KE", "Mass">>, ww_labels, 8,
                              3 * pos(ww_ind_files_b))

\* rows of the file that are not header rows
DataRows(rows, headers) ==
    SelectSeq(rows, LAMBDA row : row[1] \notin headers)

\* the body shared by make_individual_nomoto_regular and _hn: the four files
\* are read in step, one interpolator per isotope row
NomotoIndividual(self, files, idxs, mass) ==
    IF mass \notin DOMAIN idxs
    THEN Raise([self EXCEPT !.metallicity_points = z_values_nomoto],
               "ValueError")
    ELSE LET idx  == idxs[mass]
             rows(f) == IndividualFileRows(files[f])
             n    == Len(rows(1))
             kept == {r \in 1..n : rows(1)[r][1] \notin {"M", "E", "Mcut"}}
             elt(r) == _parse_nomoto_individual_element(rows(1)[r][1])
             last(k) == CHOOSE r \in kept :
                           elt(r) = k /\ \A q \in kept : elt(q) = k => q <= r
         IN  [self EXCEPT
                 !.metallicity_points = z_values_nomoto,
                 !._abundances_interp =
                     Update(@, [k \in {elt(r) : r \in kept} |->
                        _interpolation_wrapper(z_values_nomoto,
                           [f \in 1..4 |-> rows(f)[last(k)][idx + 1]])])]

make_individual_nomoto_regular(self, mass) ==
    NomotoIndividual(self, nomoto_ind_files,
        [m \in {"13", "15", "18", "20", "25", "30", "40"} |->
            CASE m = "13" -> 1 [] m = "15" -> 2 [] m = "18" -> 3
              [] m = "20" -> 4 [] m = "25" -> 5 [] m = "30" -> 6
              [] m = "40" -> 7],
        mass)

make_individual_nomoto_hn(self, mass) ==
    NomotoIndividual(self, nomoto_ind_hn_files,
        [m \in {"20", "25", "30", "40"} |->
            CASE m = "20" -> 1 [] m = "25" -> 2 [] m = "30" -> 3
              [] m = "40" -> 4],
        mass)

\* int(s) for a string of decimal digits: [ok, val]; ok is FALSE where int
\* raises ValueError (the empty string, a non-digit)
PyInt(s) ==
    LET digits == <<"0", "1", "2", "3", "4", "5", "6", "7", "8", "9">>
        isdigit(c) == \E d \in 1..10 : digits[d] = c
        val(c) == (CHOOSE d \in 1..10 : digits[d] = c) - 1
    IN  IF Len(s) = 0 \/ \E i \in 1..Len(s) : ~isdigit(SubSeq(s, i, i))
        THEN [ok |-> FALSE, val |-> 0]
        ELSE [ok |-> TRUE,
              val |-> IF Len(s) = 1 THEN val(s)
                      ELSE 10 * val(SubSeq(s, 1, 1)) + val(SubSeq(s, 2, 2))]

all_high_mass ==
    [m \in {"30A", "30B", "35A", "35B", "35C", "40A", "40B", "40C"} |->
        CASE m = "30A" -> 1 [] m = "30B" -> 2 [] m = "35A" -> 3
          [] m = "35B" -> 4 [] m = "35C" -> 5 [] m = "40A" -> 6
          [] m = "40B" -> 7 [] m = "40C" -> 8]

idxs_0 ==
    Update([m \in {"12A", "13A", "15A", "18A", "20A", "22A", "25A", "25B"} |->
               CASE m = "12A" -> 1 [] m = "13A" -> 2 [] m = "15A" -> 3
                 [] m = "18A" -> 4 [] m = "20A" -> 5 [] m = "22A" -> 6
                 [] m = "25A" -> 7 [] m = "25B" -> 8],
           all_high_mass)

idxs_1 ==
    Update([m \in {"12A", "13A", "15A", "18A", "20A", "22A", "25A"} |->
               CASE m = "12A" -> 1 [] m = "13A" -> 2 [] m = "15A" -> 3
                 [] m = "18A" -> 4 [] m = "20A" -> 5 [] m = "22A" -> 6
                 [] m = "25A" -> 7],
           all_high_mass)

idxs_4 ==
    Update([m \in {"11A", "12A", "13A", "15A", "18A", "19A", "20A", "22A",
                   "25A"} |->
               CASE m = "11A" -> 1 [] m = "12A" -> 2 [] m = "13A" -> 3
                 [] m = "15A" -> 4 [] m = "18A" -> 5 [] m = "19A" -> 6
                 [] m = "20A" -> 7 [] m = "22A" -> 8 [] m = "25A" -> 9],
           all_high_mass)

_handle_different_ww95(self, in_file, idx) ==
    LET rows == DataRows(IndividualFileRows(in_file), {"elt", "KE", "Mass"})
        key(row) == _parse_nomoto_individual_element(row[1])
        interp(row) ==
            _interpolation_wrapper(<< <<0, 1>>, <<1, 1>> >>,
                                   <<row[idx + 1], row[idx + 1]>>)
    IN  [self EXCEPT !._abundances_interp =
            Update(@, RowsToInterp(
                         [i \in 1..Len(rows) |-> key(rows[i])],
                         [i \in 1..Len(rows) |-> interp(rows[i])]))]

make_individal_ww95(self, model) ==
    LET s == [self EXCEPT !.metallicity_points = z_values_ww]
        mass == PyInt(SubSeq(model, 1, IF Len(model) < 2 THEN Len(model) ELSE 2))
        files == IF mass.val < 30 THEN ww_ind_files_a ELSE ww_ind_files_b
        idx(f) == IF f = 1 THEN idxs_0[model]
                  ELSE IF f = 5 THEN idxs_4[model] ELSE idxs_1[model]
        rows(f) == DataRows(IndividualFileRows(files[f]),
                            {"elt", "KE", "Mass"})
        elt(f, r) == _parse_nomoto_individual_element(rows(f)[r][1])
        \* elements[elt]: the items appended for elt, file by file
        items(k) ==
            LET RECURSIVE collect(_, _)
                collect(f, r) ==
                    IF f > 5 THEN <<>>
                    ELSE IF r > Len(rows(f)) THEN collect(f + 1, 1)
                    ELSE (IF _parse_nomoto_individual_element(rows(f)[r][1]) = k
                          THEN <<rows(f)[r][idx(f) + 1]>> ELSE <<>>)
                         \o collect(f, r + 1)
            IN  collect(1, 1)
    IN  IF ~mass.ok THEN Raise(s, "ValueError")
        ELSE IF Contains("11A", model) \/ Contains("19A", model)
        THEN IF model \in DOMAIN idxs_4
             THEN _handle_different_ww95(s, files[5], idxs_4[model])
             ELSE Raise(s, "KeyError")
        ELSE IF Contains("25B", model)
        THEN IF model \in DOMAIN idxs_0
             THEN _handle_different_ww95(s, files[1], idxs_0[model])
             ELSE Raise(s, "KeyError")
        ELSE IF ~(model \in DOMAIN idxs_0 /\ model \in DOMAIN idxs_1
                  /\ model \in DOMAIN idxs_4)
        THEN Raise(s, "ValueError")
        ELSE [s EXCEPT !._abundances_interp =
                 Update(@, [k \in {elt(f, r) : f \in 1..5,
                                               r \in 1..Len(rows(1))} |->
                               _interpolation_wrapper(z_values_ww, items(k))])]

(***************************************************************************)
(* Yields.__init__                                                         *)
(***************************************************************************)
\* the fields before the loaders run; has_normalization, metallicity,
\* total_metals, _mass_fractions_log_z and members are not yet set and hold
\* placeholders until the constructor assigns them
Blank(model_set) ==
    [model_set |-> model_set,
     metallicity_points |-> <<>>,
     _abundances_interp |-> EmptyDict,
     abundances |-> EmptyDict,
     members |-> EmptyDict,
     has_normalization |-> FALSE,
     metallicity |-> <<0, 1>>,
     total_metals |-> <<0, 1>>,
     _mass_fractions_log_z |-> EmptyDict,
     exc |-> NoExc]

\* s[-n:] and s[-n:-m]
Tail2(s, n, m) ==
    SubSeq(s, IF Len(s) < n THEN 1 ELSE Len(s) - n + 1, Len(s) - m)

\* variant: a name that no branch takes is loaded as the test model
Dispatch_default_test(self, model_set) ==
    IF model_set = "test" THEN make_test(self)
    ELSE IF StartsWith(model_set, "iwamoto_99_Ia_")
    THEN LET m == _parse_iwamoto_model(model_set)
         IN  IF m.ok THEN make_iwamoto_99_Ia(self, m.model)
             ELSE Raise(self, "ValueError")
    ELSE IF model_set = "nomoto_06_II" THEN make_nomoto_06_II(self)
    ELSE IF Contains("imf", model_set)
    THEN IF Contains("nomoto", model_set)
         THEN IF Contains("ave", model_set)
              THEN make_imf_integrated(self, my_nomoto_ave_file)
              ELSE IF Contains("no_hn", model_set)
              THEN make_imf_integrated(self, my_nomoto_reg_file)
              ELSE IF Contains("hn", model_set)
              THEN make_imf_integrated(self, my_nomoto_hn_file)
              ELSE Raise(self, "ValueError")
         ELSE IF Contains("ww_95", model_set)
         THEN make_imf_integrated(self, my_ww_file)
         ELSE make_test(self)
    ELSE IF StartsWith(model_set, "nomoto_06_II")
    THEN IF Contains("hn", model_set)
         THEN make_individual_nomoto_hn(self, Tail2(model_set, 5, 3))
         ELSE make_individual_nomoto_regular(self, Tail2(model_set, 2, 0))
    ELSE IF StartsWith(model_set, "ww_95_II")
    THEN make_individal_ww95(self, SubSeq(model_set, 10, Len(model_set)))
    ELSE make_test(self)

\* the if/elif chain that picks the loader
Dispatch(self, model_set) ==
    IF model_set = "test" THEN make_test(self)
    ELSE IF StartsWith(model_set, "iwamoto_99_Ia_")
    THEN LET m == _parse_iwamoto_model(model_set)
         IN  IF m.ok THEN make_iwamoto_99_Ia(self, m.model)
             ELSE Raise(self, "ValueError")
    ELSE IF model_set = "nomoto_06_II" THEN make_nomoto_06_II(self)
    ELSE IF Contains("imf", model_set)
    THEN IF Contains("nomoto", model_set)
         THEN IF Contains("ave", model_set)
              THEN make_imf_integrated(self, my_nomoto_ave_file)
              ELSE IF Contains("no_hn", model_set)
              THEN make_imf_integrated(self, my_nomoto_reg_file)
              ELSE IF Contains("hn", model_set)
              THEN make_imf_integrated(self, my_nomoto_hn_file)
              ELSE Raise(self, "ValueError")
         ELSE IF Contains("ww_95", model_set)
         THEN make_imf_integrated(self, my_ww_file)
         ELSE Raise(self, "ValueError")
    ELSE IF StartsWith(model_set, "nomoto_06_II")
    THEN IF Contains("hn", model_set)
         THEN make_individual_nomoto_hn(self, Tail2(model_set, 5, 3))
         ELSE make_individual_nomoto_regular(self, Tail2(model_set, 2, 0))
    ELSE IF StartsWith(model_set, "ww_95_II")
    THEN make_individal_ww95(self, SubSeq(model_set, 10, Len(model_set)))
    ELSE Raise(self, "ValueError")

\* lines 223-227: the flag is cleared, then the WW95 iron is fixed
ClearFlagFixIron(self) ==
    IF self.exc # NoExc THEN self
    ELSE IF Contains("ww_95", self.model_set)
    THEN _handle_iron_ww([self EXCEPT !.has_normalization = FALSE])
    ELSE [self EXCEPT !.has_normalization = FALSE]

\* line 231
InitialMetallicity(self) ==
    IF self.exc # NoExc THEN self ELSE set_metallicity(self, <<0, 1>>)

\* line 234
InitialTotalMetals(self) ==
    IF self.exc # NoExc THEN self
    ELSE [self EXCEPT !.total_metals = metals_sum(self)]

\* line 237
InitialMassFractions(self) ==
    IF self.exc # NoExc THEN self ELSE _create_mass_fractions(self)

\* the statements in order; one that raises ends the constructor
__init__(model_set) ==
    InitialMassFractions(
       InitialTotalMetals(
          InitialMetallicity(
             ClearFlagFixIron(Dispatch(Blank(model_set), model_set)))))

(***************************************************************************)
(* Inputs of the calls.                                                    *)
(***************************************************************************)
NumModels == 37

NumZ == 7

NumTargets == 3

Min(a, b) == IF a < b THEN a ELSE b

AllModelNames ==
    <<"test", "nomoto_06_II", "iwamoto_99_Ia_W7", "ww_95_imf_ave",
      "nomoto_06_12", "ww_95_II_12A", "nomoto_06_II_13", "ww_95_II_11A",
      "nomoto_06_II_imf_ave", "nomoto_06_II_20_hn",
      "kroupa_imf", "nomoto_imf", "",
      "iwamoto_99_Ia_W70", "iwamoto_99_Ia_WDD1", "iwamoto_99_Ia_WDD2",
      "iwamoto_99_Ia_WDD3", "iwamoto_99_Ia_CDD1", "iwamoto_99_Ia_CDD2",
      "iwamoto_99_Ia_wer", "iwamoto_99_Ia_", "iwamoto_99_Ia_x_W7",
      "nomoto_06_II_19", "nomoto_06_II_12_hn", "nomoto_06_II_x13",
      "ww_95_II_12", "ww_95_II_12B", "ww_95_II_16A", "ww_95_II_40D",
      "ww_95_II_11AB", "ww_95_II_25B", "ww_95_II_30A",
      "kobayashi_06_II_13", "kobayashi_06_II_20_hn", "nugrid_1",
      "nugrid_7", "nomoto_18_Ia_W7",
      "ww_95_II_x19A", "nomoto_06_II_40">>

ModelNames ==
    {AllModelNames[i] : i \in 1..Min(NumModels, Len(AllModelNames))}

AllZ ==
    << <<0, 1>>, <<1, 1>>, <<1, 1000>>, <<2, 1>>, <<-1, 1000>>,
       <<1, 10000000>>, <<1, 100>>, <<1, 250>>, <<1, 50>>, <<1, 10>> >>

ZInputs == {AllZ[i] : i \in 1..Min(NumZ, Len(AllZ))}

AllTargets == << <<1, 1>>, <<25, 1>>, <<0, 1>>, <<10, 1>>, <<1, 2>> >>

Targets == {AllTargets[i] : i \in 1..Min(NumTargets, Len(AllTargets))}

(***************************************************************************)
(* State: the fields of one Yields instance, whether it exists yet, the    *)
(* last call made on it, the exception that call raised, and target: <<T>>  *)
(* once a normalize_metals(T) call has completed (the latest such T), <<>>  *)
(* before.  ret holds what the last call of a module-level function or of  *)
(* an Abundances method returned (<<>> while no such call was made), and   *)
(* abundance_obj the Abundances object once one was built (<<>> before).   *)
(***************************************************************************)
VARIABLES model_set, metallicity_points, _abundances_interp, abundances,
          members, has_normalization, metallicity, total_metals,
          _mass_fractions_log_z, constructed, call, raised, target, ret,
          abundance_obj

vars == <<model_set, metallicity_points, _abundances_interp, abundances,
          members, has_normalization, metallicity, total_metals,
          _mass_fractions_log_z, constructed, call, raised, target, ret,
          abundance_obj>>

Self ==
    [model_set |-> model_set,
     metallicity_points |-> metallicity_points,
     _abundances_interp |-> _abundances_interp,
     abundances |-> abundances,
     members |-> members,
     has_normalization |-> has_normalization,
     metallicity |-> metallicity,
     total_metals |-> total_metals,
     _mass_fractions_log_z |-> _mass_fractions_log_z,
     exc |-> NoExc]

\* the instance fields become those of s; an exception leaves whatever the
\* call had written before it was raised
Assign(s) ==
    /\ model_set' = s.model_set
    /\ metallicity_points' = s.metallicity_points
    /\ _abundances_interp' = s._abundances_interp
    /\ abundances' = s.abundances
    /\ members' = s.members
    /\ has_normalization' = s.has_normalization
    /\ metallicity' = s.metallicity
    /\ total_metals' = s.total_metals
    /\ _mass_fractions_log_z' = s._mass_fractions_log_z
    /\ raised' = s.exc

Init ==
    /\ model_set = ""
    /\ metallicity_points = <<>>
    /\ _abundances_interp = EmptyDict
    /\ abundances = EmptyDict
    /\ members = EmptyDict
    /\ has_normalization = FALSE
    /\ metallicity = <<0, 1>>
    /\ total_metals = <<0, 1>>
    /\ _mass_fractions_log_z = EmptyDict
    /\ raised = NoExc
    /\ constructed = FALSE
    /\ call = [op |-> "none", name |-> "", arg |-> <<0, 1>>]
    /\ target = <<>>
    /\ ret = <<>>
    /\ abundance_obj = <<>>

\* Yields(name): a constructor that raises leaves no object behind
Construct ==
    /\ ~constructed
    /\ \E name \in ModelNames :
          \E s \in {__init__(name)} :
              /\ IF s.exc = NoExc
                 THEN Assign(s) /\ constructed' = TRUE
                 ELSE /\ raised' = s.exc
                      /\ UNCHANGED <<model_set, metallicity_points,
                                     _abundances_interp, abundances, members,
                                     has_normalization, metallicity,
                                     total_metals, _mass_fractions_log_z,
                                     constructed>>
              /\ call' = [op |-> "__init__", name |-> name, arg |-> <<0, 1>>]
    /\ UNCHANGED <<target, ret, abundance_obj>>

SetMetallicity ==
    /\ constructed
    /\ \E z \in ZInputs :
          /\ Assign(set_metallicity(Self, z))
          /\ call' = [op |-> "set_metallicity", name |-> "", arg |-> z]
    /\ UNCHANGED <<constructed, target, ret, abundance_obj>>

NormalizeMetals ==
    /\ constructed
    /\ \E t \in Targets :
          /\ Assign(normalize_metals(Self, t))
          /\ call' = [op |-> "normalize_metals", name |-> "", arg |-> t]
          /\ target' = IF raised' = NoExc THEN <<t>> ELSE target
    /\ UNCHANGED <<constructed, ret, abundance_obj>>

Next == Construct \/ SetMetallicity \/ NormalizeMetals

Spec == Init /\ [][Next]_vars

(***************************************************************************)
(* Calls of the module-level functions and of the vectorised methods.      *)
(* They read no field that a set_metallicity or normalize_metals call      *)
(* changes, so each is made on its own (a method on a freshly constructed  *)
(* object) from the initial state; call records the function and its       *)
(* arguments, ret its result.                                              *)
(***************************************************************************)
MaxArrayLen == 3

\* the sequences over S of length MaxArrayLen at most
SeqsUpTo(S) == UNION {[1..m -> S] : m \in 0..MaxArrayLen}

\* a float, or a list or an array of floats, over the numbers of S
PyValues(S) ==
    {PyFloat(x) : x \in S} \cup {PyList(xs) : xs \in SeqsUpTo(S)}
       \cup {NdArray(xs) : xs \in SeqsUpTo(S)}

LogScalars ==
    {<<0, 1>>, <<1, 1>>, <<1, 100>>, <<100, 1>>, <<1, 1000>>, <<-1, 1000>>}

Labels ==
    {"p", "d", "3He", "9Be", "12C", "18O", "22Na", "28Si", "56Fe", "100Mo"}

ObjectVars ==
    <<model_set, metallicity_points, _abundances_interp, abundances, members,
      has_normalization, metallicity, total_metals, _mass_fractions_log_z,
      constructed, raised, target>>

CallMetallicityLog ==
    /\ call.op = "none"
    /\ \E value \in PyValues(LogScalars) :
          /\ call' = [op |-> "_metallicity_log", name |-> "", arg |-> value]
          /\ ret' = _metallicity_log_array(value)
    /\ UNCHANGED <<ObjectVars, abundance_obj>>

CallParseIndividualElement ==
    /\ call.op = "none"
    /\ \E name \in Labels :
          /\ call' = [op |-> "_parse_nomoto_individual_element",
                      name |-> name, arg |-> <<0, 1>>]
          /\ ret' = _parse_nomoto_individual_element(name)
    /\ UNCHANGED <<ObjectVars, abundance_obj>>

\* the models, keys ("U" is a key of neither) and metallicities of the
\* mass_fraction calls
FractionModels == {"test", "nomoto_06_II"}

FractionKeys == {"C", "He", "U"}

FractionScalars == {<<0, 1>>, <<1, 1>>, <<1, 1000>>, <<1, 100>>}

\* Yields(name).mass_fraction(isotope, value)
CallMassFraction ==
    /\ call.op = "none"
    /\ \E name \in FractionModels :
          \E s \in {__init__(name)} :
             \E k \in FractionKeys, z \in PyValues(FractionScalars) :
                /\ call' = [op |-> "mass_fraction", name |-> name,
                            arg |-> <<k, z>>]
                /\ ret' = mass_fraction_array(s, k, z)
    /\ UNCHANGED <<ObjectVars, abundance_obj>>

NextFn ==
    \/ CallMetallicityLog
    \/ CallParseIndividualElement
    \/ CallMassFraction

SpecFn == Init /\ [][NextFn]_vars

(***************************************************************************)
(* The abundance ratios (abundances.py).  numpy floats are the rationals   *)
(* plus inf (1/0), -inf (-1/0) and nan (0/0); dividing arrays by zero      *)
(* warns and gives one of these, it raises nothing.                        *)
(***************************************************************************)
\* rows (name, f_mass) of the solar abundance table, hydrogen and helium
\* first; sample values with a metal mass fraction of 0.0175
solar ==
    << <<"H", <<7, 10>> >>, <<"He", <<7, 25>> >>, <<"C", <<1, 200>> >>,
       <<"O", <<1, 100>> >>, <<"Fe", <<1, 400>> >> >>

SolarRow(elt) == solar[CHOOSE r \in 1..Len(solar) : solar[r][1] = elt]

\* z_mass = np.sum(solar["f_mass"][2:])
Z_sun == RSum([r \in 3..Len(solar) |-> solar[r][2]], 3..Len(solar))

\* metal_fractions[elt] = f_mass / z_mass, for every row
solar_metal_fractions ==
    [elt \in {solar[r][1] : r \in 1..Len(solar)} |->
        RDiv(SolarRow(elt)[2], Z_sun)]

\* (1 - Z_tot) / (1 + Y/X)
hydrogen(Z_tot) ==
    RDiv(RSub(<<1, 1>>, Z_tot),
         RAdd(<<1, 1>>, RDiv(solar_metal_fractions["He"],
                             solar_metal_fractions["H"])))

IsFinite(a) == a[2] # 0

\* a / b on numpy floats
NpDiv(a, b) ==
    CASE a = <<0, 0>> \/ b = <<0, 0>> -> <<0, 0>>
      [] ~IsFinite(a) /\ ~IsFinite(b) -> <<0, 0>>
      [] ~IsFinite(a) -> IF b[1] < 0 THEN <<-a[1], 0>> ELSE a
      [] ~IsFinite(b) -> <<0, 1>>
      [] b[1] = 0 -> IF a[1] > 0 THEN <<1, 0>>
                     ELSE IF a[1] < 0 THEN <<-1, 0>> ELSE <<0, 0>>
      [] OTHER -> RDiv(a, b)

\* np.log10(a / b) for a float b > 0: -inf at a = 0, nan for a negative or
\* nan a, inf at inf; everywhere else the value is kept as the term
\* log10(a / b), with the division not carried out
np_log10_ratio(a, b) ==
    CASE a = <<0, 0>> -> <<0, 0>>
      [] a = <<1, 0>> -> <<1, 0>>
      [] a[1] < 0 -> <<0, 0>>
      [] a[1] = 0 -> <<-1, 0>>
      [] OTHER -> [log10 |-> <<a, b>>]

\* Abundances(II_type): the two Yields objects; with an II_type other than
\* "nomoto" and "ww" no yields_II attribute is set
Abundances__init__(II_type) ==
    CASE II_type = "nomoto" ->
           [yields_Ia |-> __init__("iwamoto_99_Ia_W7"),
            yields_II |-> __init__("nomoto_06_II_imf_ave")]
      [] II_type = "ww" ->
           [yields_Ia |-> __init__("iwamoto_99_Ia_W7"),
            yields_II |-> __init__("ww_95_imf_ave")]
      [] OTHER -> [yields_Ia |-> __init__("iwamoto_99_Ia_W7")]

\* the array a metallicity argument is turned into: a float becomes a
\* one-element array, a list an array of its entries
ToArray(Z) == IF Z.type = "float" THEN <<Z.v>> ELSE Z.v

\* any(z_type < 0) or any(z_type > 1)
AnyOutside(z_type) ==
    \E pos \in 1..Len(z_type) :
       RLess(z_type[pos], <<0, 1>>) \/ RLess(<<1, 1>>, z_type[pos])

\* Z_Ia + Z_II on arrays of one length
ArrayAdd(a, b) == [pos \in 1..Len(a) |-> RAdd(a[pos], b[pos])]

ZValueError == [exc |-> "ValueError", Z_Ia |-> <<>>, Z_II |-> <<>>]

\* variant: the totals are not checked
_err_checking_z_no_total_check(Z_Ia, Z_II) ==
    IF Len(ToArray(Z_Ia)) # Len(ToArray(Z_II)) THEN ZValueError
    ELSE IF AnyOutside(ToArray(Z_Ia)) \/ AnyOutside(ToArray(Z_II))
    THEN ZValueError
    ELSE [exc |-> NoExc, Z_Ia |-> ToArray(Z_Ia), Z_II |-> ToArray(Z_II)]

\* the two arrays, or the ValueError raised
_err_checking_z(Z_Ia, Z_II) ==
    IF Len(ToArray(Z_Ia)) # Len(ToArray(Z_II)) THEN ZValueError
    ELSE IF AnyOutside(ToArray(Z_Ia)) \/ AnyOutside(ToArray(Z_II))
    THEN ZValueError
    ELSE IF AnyOutside(ArrayAdd(ToArray(Z_Ia), ToArray(Z_II)))
    THEN ZValueError
    ELSE [exc |-> NoExc, Z_Ia |-> ToArray(Z_Ia), Z_II |-> ToArray(Z_II)]

\* variant: the array is returned whatever its length
_rtype_always_array(array) == NdArray(array)

\* float(array[0]) for a one-element array, the array otherwise
_rtype(array) ==
    IF Len(array) = 1 THEN PyFloat(array[1]) ELSE NdArray(array)

\* What a call of an abundance-ratio operation gives: the exception raised
\* ("none" when it returns), the value returned, and the mass_fraction
\* lookups it made on the two Yields objects up to that point.
Raised(e, lookups) == [exc |-> e, val |-> <<>>, lookups |-> lookups]

Returned(array, lookups) ==
    [exc |-> NoExc, val |-> _rtype(array), lookups |-> lookups]

ZOnHChecked(Z_tot) ==
    Returned([pos \in 1..Len(Z_tot) |->
                 np_log10_ratio(NpDiv(Z_tot[pos], hydrogen(Z_tot[pos])),
                                NpDiv(Z_sun, hydrogen(Z_sun)))], <<>>)

z_on_h(self, Z_Ia, Z_II) ==
    IF _err_checking_z(Z_Ia, Z_II).exc # NoExc
    THEN Raised(_err_checking_z(Z_Ia, Z_II).exc, <<>>)
    ELSE ZOnHChecked(ArrayAdd(_err_checking_z(Z_Ia, Z_II).Z_Ia,
                              _err_checking_z(Z_Ia, Z_II).Z_II))

\* Z_Ia * f_Ia + Z_II * f_II, entry by entry
StarNum(Z_Ia, f_Ia, Z_II, f_II) ==
    [pos \in 1..Len(Z_Ia) |->
        RAdd(RMul(Z_Ia[pos], f_Ia[pos]), RMul(Z_II[pos], f_II[pos]))]

XOnHValue(element, Z_Ia, Z_II, f_Ia, f_II, lookups) ==
    IF element \notin DOMAIN solar_metal_fractions
    THEN Raised("KeyError", lookups)
    ELSE Returned(
            [pos \in 1..Len(Z_Ia) |->
                np_log10_ratio(
                   NpDiv(StarNum(Z_Ia, f_Ia, Z_II, f_II)[pos],
                         hydrogen(RAdd(Z_Ia[pos], Z_II[pos]))),
                   NpDiv(RMul(Z_sun, solar_metal_fractions[element]),
                         hydrogen(Z_sun)))], lookups)

XOnHLookups(self, element, Z_Ia, Z_II, f_Ia, f_II) ==
    IF f_Ia.exc # NoExc
    THEN Raised(f_Ia.exc, << <<"yields_Ia", element>> >>)
    ELSE IF f_II.exc # NoExc
    THEN Raised(f_II.exc,
                << <<"yields_Ia", element>>, <<"yields_II", element>> >>)
    ELSE XOnHValue(element, Z_Ia, Z_II, f_Ia.val.v, f_II.val.v,
                   << <<"yields_Ia", element>>, <<"yields_II", element>> >>)

XOnHChecked(self, element, Z_Ia, Z_II) ==
    XOnHLookups(self, element, Z_Ia, Z_II,
                mass_fraction_array(self.yields_Ia, element, NdArray(Z_Ia)),
                mass_fraction_array(self.yields_II, element, NdArray(Z_II)))

x_on_h(self, element, Z_Ia, Z_II) ==
    IF _err_checking_z(Z_Ia, Z_II).exc # NoExc
    THEN Raised(_err_checking_z(Z_Ia, Z_II).exc, <<>>)
    ELSE XOnHChecked(self, element, _err_checking_z(Z_Ia, Z_II).Z_Ia,
                     _err_checking_z(Z_Ia, Z_II).Z_II)

\* the four lookups of x_on_fe, in the order they are made
FeLookups(element) ==
    << <<"yields_Ia", element>>, <<"yields_II", element>>,
       <<"yields_Ia", "Fe">>, <<"yields_II", "Fe">> >>

XOnFeValue(element, Z_Ia, Z_II, f_Ia_x, f_II_x, f_Ia_Fe, f_II_Fe) ==
    IF element \notin DOMAIN solar_metal_fractions
    THEN Raised("KeyError", FeLookups(element))
    ELSE Returned(
            [pos \in 1..Len(Z_Ia) |->
                np_log10_ratio(
                   NpDiv(StarNum(Z_Ia, f_Ia_x, Z_II, f_II_x)[pos],
                         StarNum(Z_Ia, f_Ia_Fe, Z_II, f_II_Fe)[pos]),
                   NpDiv(solar_metal_fractions[element],
                         solar_metal_fractions["Fe"]))], FeLookups(element))

XOnFeLookups(element, Z_Ia, Z_II, f_Ia_x, f_II_x, f_Ia_Fe, f_II_Fe) ==
    IF f_Ia_x.exc # NoExc
    THEN Raised(f_Ia_x.exc, SubSeq(FeLookups(element), 1, 1))
    ELSE IF f_II_x.exc # NoExc
    THEN Raised(f_II_x.exc, SubSeq(FeLookups(element), 1, 2))
    ELSE IF f_Ia_Fe.exc # NoExc
    THEN Raised(f_Ia_Fe.exc, SubSeq(FeLookups(element), 1, 3))
    ELSE IF f_II_Fe.exc # NoExc
    THEN Raised(f_II_Fe.exc, FeLookups(element))
    ELSE XOnFeValue(element, Z_Ia, Z_II, f_Ia_x.val.v, f_II_x.val.v,
                    f_Ia_Fe.val.v, f_II_Fe.val.v)

XOnFeChecked(self, element, Z_Ia, Z_II) ==
    XOnFeLookups(element, Z_Ia, Z_II,
                 mass_fraction_array(self.yields_Ia, element, NdArray(Z_Ia)),
                 mass_fraction_array(self.yields_II, element, NdArray(Z_II)),
                 mass_fraction_array(self.yields_Ia, "Fe", NdArray(Z_Ia)),
                 mass_fraction_array(self.yields_II, "Fe", NdArray(Z_II)))

x_on_fe(self, element, Z_Ia, Z_II) ==
    IF _err_checking_z(Z_Ia, Z_II).exc # NoExc
    THEN Raised(_err_checking_z(Z_Ia, Z_II).exc, <<>>)
    ELSE XOnFeChecked(self, element, _err_checking_z(Z_Ia, Z_II).Z_Ia,
                      _err_checking_z(Z_Ia, Z_II).Z_II)

LogZChecked(Z_tot) ==
    Returned([pos \in 1..Len(Z_tot) |-> np_log10_ratio(Z_tot[pos], Z_sun)],
             <<>>)

log_z_over_z_sun(self, Z_Ia, Z_II) ==
    IF _err_checking_z(Z_Ia, Z_II).exc # NoExc
    THEN Raised(_err_checking_z(Z_Ia, Z_II).exc, <<>>)
    ELSE LogZChecked(ArrayAdd(_err_checking_z(Z_Ia, Z_II).Z_Ia,
                              _err_checking_z(Z_Ia, Z_II).Z_II))

(***************************************************************************)
(* An Abundances object is built, then one abundance-ratio operation is    *)
(* called on it; call.name is the II_type of the object and call.arg the   *)
(* element ("" where the operation takes none) and the two metallicity     *)
(* arguments.                                                              *)
(***************************************************************************)
MaxZLen == 2

IITypes == {"nomoto", "ww"}

Elements == {"Fe", "C"}

\* 0.1 + 1 is a total above 1, 0 + 1 a total of exactly 1
ZScalars == {<<0, 1>>, <<1, 10>>, <<1, 1>>, <<-1, 10>>, <<2, 1>>}

\* the entries of the lists and arrays
ZEntries == {<<0, 1>>, <<1, 10>>, <<1, 1>>, <<-1, 10>>}

ZSeqs == UNION {[1..m -> ZEntries] : m \in 0..MaxZLen}

ZArgs ==
    {PyFloat(x) : x \in ZScalars} \cup {PyList(xs) : xs \in ZSeqs}
       \cup {NdArray(xs) : xs \in ZSeqs}

\* abundance_obj = Abundances(II_type)
ConstructAbundances ==
    /\ call.op = "none"
    /\ \E II_type \in IITypes :
          /\ call' = [op |-> "Abundances", name |-> II_type, arg |-> <<0, 1>>]
          /\ abundance_obj' = Abundances__init__(II_type)
    /\ UNCHANGED <<ObjectVars, ret>>

CallZOnH ==
    /\ call.op = "Abundances"
    /\ \E Z_Ia \in ZArgs, Z_II \in ZArgs :
          /\ call' = [op |-> "z_on_h", name |-> call.name,
                      arg |-> <<"", Z_Ia, Z_II>>]
          /\ ret' = z_on_h(abundance_obj, Z_Ia, Z_II)
    /\ UNCHANGED <<ObjectVars, abundance_obj>>

CallXOnH ==
    /\ call.op = "Abundances"
    /\ \E element \in Elements, Z_Ia \in ZArgs, Z_II \in ZArgs :
          /\ call' = [op |-> "x_on_h", name |-> call.name,
                      arg |-> <<element, Z_Ia, Z_II>>]
          /\ ret' = x_on_h(abundance_obj, element, Z_Ia, Z_II)
    /\ UNCHANGED <<ObjectVars, abundance_obj>>

CallXOnFe ==
    /\ call.op = "Abundances"
    /\ \E element \in Elements, Z_Ia \in ZArgs, Z_II \in ZArgs :
          /\ call' = [op |-> "x_on_fe", name |-> call.name,
                      arg |-> <<element, Z_Ia, Z_II>>]
          /\ ret' = x_on_fe(abundance_obj, element, Z_Ia, Z_II)
    /\ UNCHANGED <<ObjectVars, abundance_obj>>

CallLogZOverZSun ==
    /\ call.op = "Abundances"
    /\ \E Z_Ia \in ZArgs, Z_II \in ZArgs :
          /\ call' = [op |-> "log_z_over_z_sun", name |-> call.name,
                      arg |-> <<"", Z_Ia, Z_II>>]
          /\ ret' = log_z_over_z_sun(abundance_obj, Z_Ia, Z_II)
    /\ UNCHANGED <<ObjectVars, abundance_obj>>

NextAbundances ==
    \/ ConstructAbundances
    \/ CallZOnH
    \/ CallXOnH
    \/ CallXOnFe
    \/ CallLogZOverZSun

SpecAbundances == Init /\ [][NextAbundances]_vars

(***************************************************************************)
(* Reference values for the properties, computed from the interpolators    *)
(* alone: isotopes are grouped by the text before the underscore.          *)
(***************************************************************************)
SymbolOf(k) == SubSeq(k, 1, IndexOf("_", k) - 1)

IsotopeKeys(d) == {k \in DOMAIN d : Contains("_", k)}

InRange(z) == RLeq(<<0, 1>>, z) /\ RLeq(z, <<1, 1>>)

\* the freshly interpolated abundance of every isotope at z, and for every
\* symbol the sum of its isotopes
RawAbundances(z) ==
    LET iso == DOMAIN _abundances_interp
        val == [j \in iso |->
                   InterpCall(_abundances_interp[j], _metallicity_log(z)).val]
    IN  [k \in iso \cup {SymbolOf(j) : j \in iso} |->
            IF k \in iso THEN val[k]
            ELSE RSum(val, {j \in iso : SymbolOf(j) = k})]

\* the freshly interpolated mass of all isotopes of metals at z
RawMetalSum(z) ==
    LET raw == RawAbundances(z)
    IN  RSum(raw, {j \in DOMAIN _abundances_interp :
                      SymbolOf(j) \notin {"H", "He"}})

\* the instance as the step leaves it
SelfNext ==
    [model_set |-> model_set',
     metallicity_points |-> metallicity_points',
     _abundances_interp |-> _abundances_interp',
     abundances |-> abundances',
     members |-> members',
     has_normalization |-> has_normalization',
     metallicity |-> metallicity',
     total_metals |-> total_metals',
     _mass_fractions_log_z |-> _mass_fractions_log_z',
     exc |-> NoExc]

Scaled(d, factor) == [k \in DOMAIN d |-> RMul(d[k], factor)]

(***************************************************************************)
(* C1: in every state after construction, whatever set_metallicity and     *)
(* normalize_metals calls were made, the entry of each element symbol E    *)
(* is the sum of the entries of exactly the isotope keys whose symbol is   *)
(* E.                                                                      *)
(***************************************************************************)
C1_ElementIsSumOfItsIsotopes ==
    constructed =>
        \A k \in IsotopeKeys(abundances) :
            /\ SymbolOf(k) \in DOMAIN abundances
            /\ abundances[SymbolOf(k)] =
                  RSum(abundances, {j \in IsotopeKeys(abundances) :
                                       SymbolOf(j) = SymbolOf(k)})

\* a normalised Nomoto model (two isotopes of H, He and C; C next to Cl)
\* after a metallicity change
C1_Witness ==
    /\ constructed /\ model_set = "nomoto_06_II" /\ has_normalization
    /\ call.op = "set_metallicity" /\ raised = NoExc
    /\ abundances["C"] # abundances["C_12"]
    /\ abundances["H"] # abundances["H_1"]

(***************************************************************************)
(* C2: once a normalize_metals(T) call has completed, metals_sum() is T    *)
(* after every later set_metallicity call that completes.                  *)
(***************************************************************************)
C2_MetalSumStaysAtTarget ==
    (constructed /\ target # <<>> /\ call.op = "set_metallicity"
        /\ raised = NoExc)
    => metals_sum(Self) = target[1]

C2_Witness ==
    /\ constructed /\ target = << <<25, 1>> >>
    /\ call.op = "set_metallicity" /\ raised = NoExc
    /\ metallicity = <<1, 1000>>
    /\ metals_sum(Self) = <<25, 1>>

(***************************************************************************)
(* C3: set_metallicity(z) with z < 0 or z > 1 raises ValueError and leaves *)
(* every field of the instance as it was; z = 0 and z = 1 are accepted.    *)
(***************************************************************************)
C3_OutOfRangeLeavesStateUnchanged ==
    [][/\ (call'.op = "set_metallicity" /\ ~InRange(call'.arg))
          => /\ raised' = "ValueError"
             /\ UNCHANGED <<model_set, metallicity_points, _abundances_interp,
                            abundances, members, has_normalization,
                            metallicity, total_metals, _mass_fractions_log_z>>
       /\ (call'.op = "set_metallicity"
              /\ call'.arg \in {<<0, 1>>, <<1, 1>>})
          => (raised' = NoExc /\ metallicity' = call'.arg)]_vars

C3_Witness ==
    /\ constructed /\ call.op = "set_metallicity" /\ ~InRange(call.arg)
    /\ raised = "ValueError"
    /\ has_normalization /\ metallicity = <<1, 1000>>

(***************************************************************************)
(* C4: has_normalization is False after construction, True after the first *)
(* normalize_metals call, never False again, and no set_metallicity call   *)
(* changes it.                                                             *)
(***************************************************************************)
C4_NormalizationFlagMachine ==
    [][/\ (~constructed /\ constructed') => ~has_normalization'
       /\ has_normalization => has_normalization'
       /\ (call'.op = "set_metallicity")
          => (has_normalization' = has_normalization)
       /\ (constructed /\ call'.op = "normalize_metals")
          => has_normalization']_vars

C4_Witness ==
    /\ constructed /\ has_normalization
    /\ call.op = "set_metallicity" /\ raised = NoExc

(***************************************************************************)
(* C5: right after the constructor returns, the metallicity is 0, the      *)
(* abundance mapping holds the unscaled interpolated values at z = 0,      *)
(* has_normalization is False and total_metals is metals_sum() of that     *)
(* state.                                                                  *)
(***************************************************************************)
C5_StateAfterConstruction ==
    (constructed /\ call.op = "__init__")
    => /\ metallicity = <<0, 1>>
       /\ abundances = RawAbundances(<<0, 1>>)
       /\ ~has_normalization
       /\ total_metals = metals_sum(Self)
       /\ total_metals = RawMetalSum(<<0, 1>>)

\* a model whose mass-fraction index was built over a five-point grid
C5_Witness ==
    /\ constructed /\ call.op = "__init__"
    /\ Len(metallicity_points) = 5
    /\ RawAbundances(metallicity_points[5]) # abundances

(***************************************************************************)
(* C6: after a completed set_metallicity(z) the abundance mapping depends  *)
(* only on z, on has_normalization and on the stored target, not on the    *)
(* calls made before: unnormalised it is the freshly interpolated mapping  *)
(* at z, normalised it is that mapping times total_metals / raw metal sum  *)
(* at z.                                                                   *)
(***************************************************************************)
C6_SetMetallicityIsHistoryFree ==
    (constructed /\ call.op = "set_metallicity" /\ raised = NoExc)
    => /\ metallicity = call.arg
       /\ abundances =
             IF has_normalization
             THEN Scaled(RawAbundances(call.arg),
                         RDiv(total_metals, RawMetalSum(call.arg)))
             ELSE RawAbundances(call.arg)

\* normalised, then moved to another metallicity with another raw metal sum
C6_Witness ==
    /\ constructed /\ call.op = "set_metallicity" /\ raised = NoExc
    /\ has_normalization /\ total_metals = <<25, 1>>
    /\ model_set = "nomoto_06_II" /\ metallicity = <<1, 100>>
    /\ RawMetalSum(metallicity) # RawMetalSum(<<0, 1>>)

(***************************************************************************)
(* C7: a completed normalize_metals(T) multiplies every entry, isotope or  *)
(* element, by the one factor T / metals_sum(), so metals_sum() becomes T; *)
(* on the test model at z = 0, normalize_metals(1) gives H_1 = 1/52 and    *)
(* normalize_metals(25) gives H_1 = 25/52, also after an earlier           *)
(* normalisation.                                                          *)
(***************************************************************************)
C7_NormalizeScalesEveryEntry ==
    [][(constructed /\ call'.op = "normalize_metals" /\ raised' = NoExc
           /\ metals_sum(Self) # <<0, 1>>)
       => /\ abundances' =
                Scaled(abundances, RDiv(call'.arg, metals_sum(Self)))
          /\ metals_sum(SelfNext) = call'.arg
          /\ (model_set = "test" /\ metallicity = <<0, 1>>)
             => abundances'["H_1"] = RDiv(call'.arg, <<52, 1>>)]_vars

C7_Witness ==
    /\ constructed /\ call.op = "normalize_metals" /\ raised = NoExc
    /\ model_set = "test" /\ metallicity = <<0, 1>>
    /\ call.arg = <<25, 1>>
    /\ abundances["H_1"] = <<25, 52>> /\ abundances["H"] = <<25, 52>>
    /\ metals_sum(Self) = <<25, 1>>

(***************************************************************************)
(* C8: metals_sum() is the sum of the element entries of every symbol but  *)
(* H and He, each element once: it equals the total over the isotopes of   *)
(* those elements; for the unnormalised test model at z = 0 it is 52.      *)
(***************************************************************************)
C8_MetalsSumExcludesHAndHe ==
    constructed
    => /\ metals_sum(Self) =
             RSum(abundances,
                  {SymbolOf(k) : k \in IsotopeKeys(abundances)} \ {"H", "He"})
       /\ metals_sum(Self) =
             RSum(abundances, {k \in IsotopeKeys(abundances) :
                                  SymbolOf(k) \notin {"H", "He"}})
       /\ (model_set = "test" /\ metallicity = <<0, 1>> /\ ~has_normalization)
          => metals_sum(Self) = <<52, 1>>

C8_Witness ==
    /\ constructed /\ model_set = "test" /\ metallicity = <<0, 1>>
    /\ ~has_normalization /\ call.op = "set_metallicity"
    /\ metals_sum(Self) = <<52, 1>>
    /\ abundances["H"] = <<1, 1>> /\ abundances["He"] = <<2, 1>>

(***************************************************************************)
(* C9: no set_metallicity or normalize_metals call changes the mass-       *)
(* fraction index, so mass_fraction(k, z) returns the same value in every  *)
(* state after construction.                                               *)
(***************************************************************************)
C9_MassFractionIndexIsFrozen ==
    [][constructed
       => /\ _mass_fractions_log_z' = _mass_fractions_log_z
          /\ \A k \in DOMAIN _mass_fractions_log_z :
                \A z \in {x \in ZInputs : RLeq(<<0, 1>>, x)} :
                   mass_fraction(SelfNext, k, z) = mass_fraction(Self, k, z)]_vars

C9_Witness ==
    /\ constructed /\ has_normalization /\ raised = NoExc
    /\ call.op = "normalize_metals" /\ call.arg = <<25, 1>>
    /\ model_set = "test" /\ metallicity = <<1, 1>>
    /\ mass_fraction(Self, "H", <<0, 1>>).val = <<1, 52>>

(***************************************************************************)
(* C10: at every point z of the model's own grid and for every key of the  *)
(* abundance mapping, elements and H and He included, mass_fraction(k, z)  *)
(* is the raw abundance of k at z over the raw metal sum at z; for the     *)
(* test model mass_fraction("H", 0) = 1/52 and mass_fraction("Na", 1) =    *)
(* 11/60.                                                                  *)
(***************************************************************************)
C10_MassFractionAtGridPoints ==
    constructed
    => /\ DOMAIN _mass_fractions_log_z = DOMAIN abundances
       /\ \A i \in 1..Len(metallicity_points) :
             \A k \in DOMAIN abundances :
                LET z == metallicity_points[i]
                IN  mass_fraction(Self, k, z) =
                       [ok |-> TRUE,
                        val |-> RDiv(RawAbundances(z)[k], RawMetalSum(z))]
       /\ model_set = "test"
          => /\ mass_fraction(Self, "H", <<0, 1>>).val = <<1, 52>>
             /\ mass_fraction(Self, "Na", <<1, 1>>).val = <<11, 60>>

C10_Witness ==
    /\ constructed /\ model_set = "test" /\ has_normalization
    /\ metallicity = <<1, 1000>>
    /\ mass_fraction(Self, "H", <<0, 1>>).val = <<1, 52>>
    /\ mass_fraction(Self, "Na", <<1, 1>>).val = <<11, 60>>

(***************************************************************************)
(* Reference values for the mass-fraction properties.                      *)
(***************************************************************************)
\* set_metallicity(z) finds every interpolator defined at z
RawDefined(z) ==
    \A j \in DOMAIN _abundances_interp :
        InterpCall(_abundances_interp[j], _metallicity_log(z)).ok

\* the unnormalised abundance of k over the unnormalised metal sum, both at z
RawFraction(k, z) == RDiv(RawAbundances(z)[k], RawMetalSum(z))

\* the point at x of the straight line through (x0, y0) and (x1, y1)
Lerp(x, x0, y0, x1, y1) ==
    RAdd(y0, RMul(RSub(y1, y0), RDiv(RSub(x, x0), RSub(x1, x0))))

\* the fraction at the nearest end of the grid outside it, the straight line
\* in log z between the fractions of the two neighbouring grid points inside
GridFraction(k, z) ==
    LET pts == metallicity_points
        n   == Len(pts)
        x   == _metallicity_log(z)
    IN  IF RLeq(x, _metallicity_log(pts[1])) THEN RawFraction(k, pts[1])
        ELSE IF RLeq(_metallicity_log(pts[n]), x) THEN RawFraction(k, pts[n])
        ELSE LET i == CHOOSE j \in 1..(n - 1) :
                         /\ RLeq(_metallicity_log(pts[j]), x)
                         /\ RLess(x, _metallicity_log(pts[j + 1]))
             IN  Lerp(x, _metallicity_log(pts[i]), RawFraction(k, pts[i]),
                      _metallicity_log(pts[i + 1]), RawFraction(k, pts[i + 1]))

\* z is a grid point, or lies at or beyond an end of the grid in log z
OnOrOutsideGrid(z) ==
    \/ \E i \in 1..Len(metallicity_points) : metallicity_points[i] = z
    \/ RLeq(_metallicity_log(z), _metallicity_log(metallicity_points[1]))
    \/ RLeq(_metallicity_log(metallicity_points[Len(metallicity_points)]),
            _metallicity_log(z))

(***************************************************************************)
(* C11 as stated: for every key k and every z in [0, 1] at which           *)
(* set_metallicity succeeds, grid point or not, mass_fraction(k, z) is the *)
(* unnormalised abundance of k at z over the unnormalised metal sum at z.  *)
(***************************************************************************)
C11_Original_MassFractionIsRatioEverywhere ==
    constructed
    => \A z \in {x \in ZInputs : InRange(x) /\ RawDefined(x)} :
          \A k \in DOMAIN abundances :
             mass_fraction(Self, k, z).val = RawFraction(k, z)

(***************************************************************************)
(* C11 amended: mass_fraction(k, z) is that ratio at every grid point and  *)
(* at every z of [0, 1] at or beyond an end of the grid where              *)
(* set_metallicity succeeds; strictly between two adjacent grid points it  *)
(* is the straight line in log z through the ratios at those two points.   *)
(***************************************************************************)
C11_MassFractionInterpolatesGridRatios ==
    constructed
    => \A z \in {x \in ZInputs : InRange(x)} :
          \A k \in DOMAIN abundances :
             /\ mass_fraction(Self, k, z) =
                   [ok |-> TRUE, val |-> GridFraction(k, z)]
             /\ (OnOrOutsideGrid(z) /\ RawDefined(z))
                => mass_fraction(Self, k, z).val = RawFraction(k, z)

\* the test model half way between its grid points in log z: the index gives
\* (1/52 + 2/60) / 2, the ratio at z itself is 1.5/56
C11_Witness ==
    /\ constructed /\ model_set = "test"
    /\ ~OnOrOutsideGrid(<<1, 1000>>)
    /\ mass_fraction(Self, "H", <<1, 1000>>).val = <<41, 1560>>
    /\ RawFraction("H", <<1, 1000>>) = <<3, 112>>

(***************************************************************************)
(* Reference values read straight from the Nomoto table.                   *)
(***************************************************************************)
\* the value of every isotope in the column of grid point number col
NomotoColumn(col) ==
    LET rows == FileRows(nomoto_file)
        key(i) == _parse_nomoto_element(rows[i][1], rows[i][2])
    IN  [k \in {key(i) : i \in 1..Len(rows)} |->
            rows[CHOOSE i \in 1..Len(rows) : key(i) = k][col + 2]]

\* every interpolator the instance holds that _interpolation_wrapper built
WrappedInterps ==
    {_abundances_interp[k] : k \in DOMAIN _abundances_interp}
       \cup {_mass_fractions_log_z[k] : k \in DOMAIN _mass_fractions_log_z}

\* distances from an end of the grid at which the interpolators are queried
Overshoots == {<<1, 1000>>, <<1, 2>>, <<1, 1>>, <<7, 1>>}

(***************************************************************************)
(* C12: every interpolator built by _interpolation_wrapper returns its     *)
(* first tabulated value below the log of the lowest grid point and its    *)
(* last tabulated value above the log of the highest one; so on the Nomoto *)
(* model set_metallicity(z) with z >= 0.02 stores the z = 0.02 column and  *)
(* with 0 < z < 1e-6 the z = 0 column (times the one normalisation factor  *)
(* when a normalisation is active).                                        *)
(***************************************************************************)
C12_OutOfGridQueriesClamp ==
    constructed
    => /\ \A f \in {g \in WrappedInterps : ~g.bounds_error} :
             \A d \in Overshoots :
                /\ InterpCall(f, RSub(f.x[1], d)) =
                      [ok |-> TRUE, val |-> f.y[1]]
                /\ InterpCall(f, RAdd(f.x[Len(f.x)], d)) =
                      [ok |-> TRUE, val |-> f.y[Len(f.y)]]
       /\ (model_set = "nomoto_06_II" /\ call.op = "set_metallicity"
              /\ raised = NoExc /\ InRange(call.arg))
          => LET column == IF RLeq(<<1, 50>>, call.arg) THEN NomotoColumn(4)
                           ELSE IF RLess(<<0, 1>>, call.arg)
                                   /\ RLess(call.arg, <<1, 1000000>>)
                                THEN NomotoColumn(1)
                                ELSE <<>>
                 metals == {k \in DOMAIN column :
                               SymbolOf(k) \notin {"H", "He"}}
             IN  \A k \in DOMAIN column :
                    abundances[k] =
                       IF has_normalization
                       THEN RMul(column[k],
                                 RDiv(total_metals, RSum(column, metals)))
                       ELSE column[k]

\* the unnormalised Nomoto model far above its grid: H_1 is the 0.02 entry
\* of the table, not the 0.004 one and not an extrapolation
C12_Witness ==
    /\ constructed /\ model_set = "nomoto_06_II" /\ ~has_normalization
    /\ call.op = "set_metallicity" /\ call.arg = <<1, 1>> /\ raised = NoExc
    /\ abundances["H_1"] = <<7, 1>> /\ NomotoColumn(3)["H_1"] = <<8, 1>>
    /\ abundances["Cl_35"] = NomotoColumn(4)["Cl_35"]

\* the logarithm the grid is laid out on, log 0 being -6
LogRef(z) == IF z = <<0, 1>> THEN <<-6, 1>> ELSE log10(z)

(***************************************************************************)
(* C13: in the unnormalised state a completed set_metallicity(z) gives     *)
(* every isotope its tabulated value when z is a grid point and, when z    *)
(* lies strictly between two adjacent grid points, the point at log z of   *)
(* the straight line through the two tabulated values, log 0 being -6; at  *)
(* the middle of the two logs that is their mean.  The test model has      *)
(* H_1 = 1 at z = 0, 2 at z = 1 and 3/2 at z = 1e-3.                       *)
(***************************************************************************)
C13_GridValuesAndLogLinearBetween ==
    (constructed /\ ~has_normalization /\ call.op = "set_metallicity"
        /\ raised = NoExc)
    => LET z   == call.arg
           \* the grid the isotopes are tabulated on: the model's
           \* metallicity points, or {0, 1} for the WW95 models that exist
           \* at one metallicity only, whose single column is laid over
           \* [0, 1]
           pts == IF \A k \in DOMAIN _abundances_interp :
                        Len(_abundances_interp[k].y) = Len(metallicity_points)
                  THEN metallicity_points
                  ELSE << <<0, 1>>, <<1, 1>> >>
       IN  /\ \A k \in DOMAIN _abundances_interp :
                 \A i \in 1..Len(pts) :
                    LET y == _abundances_interp[k].y
                    IN  /\ pts[i] = z => abundances[k] = y[i]
                        /\ (i < Len(pts) /\ RLess(LogRef(pts[i]), LogRef(z))
                               /\ RLess(LogRef(z), LogRef(pts[i + 1])))
                           => /\ abundances[k] =
                                    Lerp(LogRef(z), LogRef(pts[i]), y[i],
                                         LogRef(pts[i + 1]), y[i + 1])
                              /\ (RAdd(LogRef(z), LogRef(z)) =
                                     RAdd(LogRef(pts[i]), LogRef(pts[i + 1])))
                                 => abundances[k] =
                                       RDiv(RAdd(y[i], y[i + 1]), <<2, 1>>)
           /\ model_set = "nomoto_06_II"
              => \A i \in 1..Len(pts) :
                    pts[i] = z
                    => \A k \in DOMAIN NomotoColumn(i) :
                          abundances[k] = NomotoColumn(i)[k]
           /\ model_set = "test"
              => /\ z = <<0, 1>> => abundances["H_1"] = <<1, 1>>
                 /\ z = <<1, 1>> => abundances["H_1"] = <<2, 1>>
                 /\ z = <<1, 1000>> => abundances["H_1"] = <<3, 2>>

\* the test model half way between log 0 = -6 and log 1 = 0
C13_Witness ==
    /\ constructed /\ ~has_normalization /\ model_set = "test"
    /\ call.op = "set_metallicity" /\ call.arg = <<1, 1000>>
    /\ raised = NoExc
    /\ abundances["H_1"] = <<3, 2>> /\ abundances["Na_10"] = <<21, 2>>

(***************************************************************************)
(* C14: on every constructed model, the test model included, a             *)
(* set_metallicity(z) with 0 <= z <= 1 raises nothing, stores the value of *)
(* every isotope's interpolator at the log of z and records z as the       *)
(* current metallicity.                                                    *)
(***************************************************************************)
C14_InRangeSetMetallicityNeverRaises ==
    (constructed /\ call.op = "set_metallicity" /\ InRange(call.arg))
    => /\ raised = NoExc
       /\ metallicity = call.arg
       /\ ~has_normalization
          => \A k \in DOMAIN _abundances_interp :
                abundances[k] =
                   InterpCall(_abundances_interp[k],
                              _metallicity_log(call.arg)).val

\* the names read back in the attribute properties
ProbeKeys ==
    {"U_135", "U", "H_1", "H", "He_4", "C_12", "C", "Cl", "Cl_35", "Zn_64",
     "Fe_56", "Ni_56", "Ni", "N", "O_16", "Na_10", "Na", "C_13", "H_2"}

(***************************************************************************)
(* C15: in every state after construction, at every metallicity and before *)
(* and after normalisation, reading a key that the model's source data     *)
(* does not define (neither one of its isotopes nor the symbol of one)     *)
(* raises AttributeError; no such read returns a value.  Keys the data     *)
(* defines read as their abundance.                                        *)
(***************************************************************************)
C15_UndefinedKeyRaisesAttributeError ==
    constructed
    => LET defined == DOMAIN _abundances_interp
                         \cup {SymbolOf(k) : k \in DOMAIN _abundances_interp}
       IN  \A name \in ProbeKeys :
              IF name \in defined
              THEN getattr(Self, name) =
                      [exc |-> NoExc, val |-> abundances[name]]
              ELSE getattr(Self, name).exc = "AttributeError"

\* a normalised Iwamoto model away from z = 0: no hydrogen, no uranium
C15_Witness ==
    /\ constructed /\ model_set = "iwamoto_99_Ia_W7" /\ has_normalization
    /\ metallicity = <<1, 1000>>
    /\ getattr(Self, "H_1").exc = "AttributeError"
    /\ getattr(Self, "U_135").exc = "AttributeError"
    /\ getattr(Self, "C_12").exc = NoExc

\* a name of no family: not the test model, not an Iwamoto or a Nomoto or a
\* WW95 name, and with "imf" in it neither a Nomoto nor a WW95 one
NoFamily(name) ==
    /\ name # "test"
    /\ ~StartsWith(name, "iwamoto_99_Ia_")
    /\ IF Contains("imf", name)
       THEN ~Contains("nomoto", name) /\ ~Contains("ww_95", name)
       ELSE ~StartsWith(name, "nomoto_06_II") /\ ~StartsWith(name, "ww_95_II")

(***************************************************************************)
(* C16: Yields(name) with a name of no recognised family, such as          *)
(* "nomoto_06_12" or an "imf" name that is neither Nomoto nor WW95, raises *)
(* ValueError and leaves no object; no loader has run: the object the      *)
(* constructor was filling still has no metallicity points, no             *)
(* interpolators and no abundances when the exception leaves it.           *)
(***************************************************************************)
C16_UnknownFamilyRaisesValueError ==
    (call.op = "__init__" /\ NoFamily(call.name))
    => /\ raised = "ValueError"
       /\ ~constructed
       /\ Dispatch(Blank(call.name), call.name)
             = Raise(Blank(call.name), "ValueError")
       /\ metallicity_points = <<>>
       /\ _abundances_interp = EmptyDict
       /\ abundances = EmptyDict

\* both kinds of name the claim gives have been tried, this one the "imf"
\* name of no family
C16_Witness ==
    /\ call.op = "__init__" /\ call.name = "kroupa_imf"
    /\ NoFamily(call.name) /\ NoFamily("nomoto_06_12")
    /\ "nomoto_06_12" \in ModelNames
    /\ raised = "ValueError" /\ ~constructed

\* what follows the prefix in a name that starts with it
Suffix(name, prefix) == SubSeq(name, Len(prefix) + 1, Len(name))

NomotoSuffixes ==
    {"_13", "_15", "_18", "_20", "_25", "_30", "_40",
     "_20_hn", "_25_hn", "_30_hn", "_40_hn"}

IwamotoSuffixes == {"W7", "W70", "WDD1", "WDD2", "WDD3", "CDD1", "CDD2"}

(***************************************************************************)
(* C17: a constructor call that completes on a name made of "nomoto_06_II" *)
(* and a suffix was given one of the suffixes _13, _15, _18, _20, _25,     *)
(* _30, _40, _20_hn, _25_hn, _30_hn, _40_hn, and one that completes on a   *)
(* name made of "iwamoto_99_Ia_" and a suffix was given one of W7, W70,    *)
(* WDD1, WDD2, WDD3, CDD1, CDD2; every other suffix raises.                *)
(***************************************************************************)
C17_UnsupportedSuffixRaises ==
    (call.op = "__init__" /\ raised = NoExc)
    => /\ (StartsWith(call.name, "nomoto_06_II")
              /\ call.name # "nomoto_06_II")
          => Suffix(call.name, "nomoto_06_II") \in NomotoSuffixes
       /\ StartsWith(call.name, "iwamoto_99_Ia_")
          => Suffix(call.name, "iwamoto_99_Ia_") \in IwamotoSuffixes

WW95Models ==
    {"11A", "12A", "13A", "15A", "18A", "19A", "20A", "22A", "25A", "25B",
     "30A", "30B", "35A", "35B", "35C", "40A", "40B", "40C"}

(***************************************************************************)
(* C18: Yields("ww_95_II_" + tag) with a tag that is not one of the        *)
(* eighteen WW95 models raises ValueError and nothing else, also when the  *)
(* tag has "11A", "19A" or "25B" inside it.                                *)
(***************************************************************************)
C18_BadWW95TagRaisesValueError ==
    (call.op = "__init__" /\ StartsWith(call.name, "ww_95_II_")
        /\ Suffix(call.name, "ww_95_II_") \notin WW95Models)
    => raised = "ValueError"

(***************************************************************************)
(* C19: a normalize_metals(T) call made while metals_sum() is zero raises  *)
(* nothing, leaves the normalisation marked active and stores T as the     *)
(* target.                                                                 *)
(***************************************************************************)
C19_NormalizeAtZeroMetalSumDoesNotRaise ==
    [][(constructed /\ metals_sum(Self) = <<0, 1>>
           /\ call'.op = "normalize_metals")
       => (raised' = NoExc /\ has_normalization'
              /\ total_metals' = call'.arg)]_vars

\* the models in the order of the table's columns, which follow the
\* isotope and the solar ratio
IwamotoOrder == <<"W7", "W70", "WDD1", "WDD2", "WDD3", "CDD1", "CDD2">>

\* the isotope each row of the table is about
IwamotoIsotopes == <<"C_12", "Cl_35", "Zn_64", "Fe_56">>

\* the row'th entry of a model's column
IwamotoTabulated(model, row) ==
    FileRows(iwamoto_file)[row]
       [2 + CHOOSE c \in 1..Len(IwamotoOrder) : IwamotoOrder[c] = model]

(***************************************************************************)
(* C20: on each of the seven Iwamoto models, while no normalisation is     *)
(* active, every isotope holds the entry of that model's column of the     *)
(* table after construction and after a set_metallicity(z) with any z in   *)
(* [0, 1]; on W7 that is C_12 = 4.83E-02 and Zn_64 = 1.06E-05.             *)
(***************************************************************************)
C20_IwamotoIsMetallicityIndependent ==
    (constructed /\ ~has_normalization
        /\ \E c \in 1..Len(IwamotoOrder) :
              model_set = "iwamoto_99_Ia_" \o IwamotoOrder[c])
    => LET model == Suffix(model_set, "iwamoto_99_Ia_")
       IN  /\ \A row \in 1..Len(IwamotoIsotopes) :
                 abundances[IwamotoIsotopes[row]]
                    = IwamotoTabulated(model, row)
           /\ model = "W7"
              => /\ abundances["C_12"] = <<483, 10000>>
                 /\ abundances["Zn_64"] = <<53, 5000000>>

\* the WDD2 model at a metallicity inside the grid holds its own column
C20_Witness ==
    /\ constructed /\ ~has_normalization
    /\ model_set = "iwamoto_99_Ia_WDD2"
    /\ call.op = "set_metallicity" /\ call.arg = <<1, 1000>>
    /\ raised = NoExc /\ metallicity = <<1, 1000>>
    /\ abundances["C_12"] = <<899, 100000>>
    /\ abundances["C_12"] # IwamotoTabulated("W7", 1)

\* one name or more of each source family the constructor is to support
FamilyExamples ==
    {"iwamoto_99_Ia_W7", "nomoto_06_II", "nomoto_06_II_13",
     "kobayashi_06_II_13", "kobayashi_06_II_20_hn", "ww_95_II_12A",
     "nugrid_1", "nugrid_7", "nomoto_18_Ia_W7",
     "nomoto_06_II_imf_ave", "ww_95_imf_ave"}

(***************************************************************************)
(* C21: Yields(name) completes for a name of each supported source family: *)
(* Iwamoto Ia, Nomoto II, Kobayashi II, WW95 II, NuGrid AGB, Nomoto 18 Ia  *)
(* and the IMF-integrated composites; the object exists, carries the name  *)
(* and has the grid and the interpolators of one loader.                   *)
(***************************************************************************)
C21_EverySupportedFamilyConstructs ==
    (call.op = "__init__" /\ call.name \in FamilyExamples)
    => /\ raised = NoExc
       /\ constructed
       /\ model_set = call.name
       /\ metallicity_points # <<>>
       /\ _abundances_interp # EmptyDict

\* the interpolator the loader built for an isotope from the tables, before
\* the constructor touched the iron
Tabulated(isotope) ==
    Dispatch(Blank(model_set), model_set)._abundances_interp[isotope]

(***************************************************************************)
(* C26: on every model that holds WW95 data (the individual ww_95_II       *)
(* models, 11A, 19A and 25B included, and the IMF-integrated WW95 set),    *)
(* while no normalisation is active, Ni_56 is 0 and Fe_56 is half the sum  *)
(* of the tabulated Ni_56 and Fe_56 interpolated at the current            *)
(* metallicity, after construction and at every z in [0, 1].               *)
(***************************************************************************)
C26_WW95IronIsHalvedNickelZeroed ==
    (constructed /\ ~has_normalization /\ Contains("ww_95", model_set))
    => /\ abundances["Ni_56"] = <<0, 1>>
       /\ abundances["Fe_56"] =
             RDiv(RAdd(InterpCall(Tabulated("Ni_56"),
                                  _metallicity_log(metallicity)).val,
                       InterpCall(Tabulated("Fe_56"),
                                  _metallicity_log(metallicity)).val),
                  <<2, 1>>)

\* a 12 solar mass WW95 model between two points of its grid
C26_Witness ==
    /\ constructed /\ ~has_normalization /\ model_set = "ww_95_II_12A"
    /\ call.op = "set_metallicity" /\ call.arg = <<1, 1000>>
    /\ raised = NoExc /\ metallicity = <<1, 1000>>
    /\ abundances["Ni_56"] = <<0, 1>>
    /\ abundances["Fe_56"] # <<0, 1>>
    /\ InterpCall(Tabulated("Ni_56"), <<-3, 1>>).val # <<0, 1>>

\* the element keys and the isotope keys of the metals
MetalElements ==
    {k \in DOMAIN _mass_fractions_log_z :
        ~Contains("_", k) /\ k \notin {"H", "He"}}

MetalIsotopes ==
    {k \in DOMAIN _mass_fractions_log_z :
        Contains("_", k) /\ SymbolOf(k) \notin {"H", "He"}}

\* the sum of mass_fraction(k, z) over the keys k of S
FractionSum(S, z) ==
    RSum([k \in S |-> mass_fraction(Self, k, z).val], S)

(***************************************************************************)
(* C28: on every model and at every metallicity z in [0, 1], a point of    *)
(* the grid or not, the mass fractions of the metal elements (every        *)
(* element key but H and He) add up to 1, and so do the mass fractions of  *)
(* the isotopes of those elements.                                         *)
(***************************************************************************)
C28_MetalMassFractionsSumToOne ==
    constructed
    => \A z \in {x \in ZInputs : InRange(x)} :
          /\ \A k \in MetalElements \cup MetalIsotopes :
                mass_fraction(Self, k, z).ok
          /\ FractionSum(MetalElements, z) = <<1, 1>>
          /\ FractionSum(MetalIsotopes, z) = <<1, 1>>

\* the Nomoto model: 1e-2 lies between two grid points, 1e-7 below the
\* first positive one, and carbon has two isotopes
C28_Witness ==
    /\ constructed /\ model_set = "nomoto_06_II"
    /\ {<<1, 100>>, <<1, 10000000>>} \subseteq ZInputs
    /\ <<1, 100>> \notin {metallicity_points[i] :
                             i \in 1..Len(metallicity_points)}
    /\ Cardinality(MetalElements) < Cardinality(MetalIsotopes)
    /\ mass_fraction(Self, "C", <<1, 100>>).val
          # mass_fraction(Self, "C", <<1, 250>>).val
    /\ FractionSum(MetalElements, <<1, 100>>) = <<1, 1>>

(***************************************************************************)
(* C29: whatever set_metallicity and normalize_metals calls came before,   *)
(* a target of 0 among them, a normalize_metals(T) call on a constructed   *)
(* model completes without an exception and leaves metals_sum() equal to   *)
(* T.                                                                      *)
(***************************************************************************)
C29_NormalizeAlwaysReachesTarget ==
    [][(constructed /\ call'.op = "normalize_metals")
       => (raised' = NoExc /\ metals_sum(SelfNext) = call'.arg)]_vars

(***************************************************************************)
(* C30: after construction and after every completed set_metallicity or    *)
(* normalize_metals call the attribute of each key, isotope or element, is *)
(* the abundance mapping's entry for that key, and the keys are those the  *)
(* object had when its construction finished.                              *)
(***************************************************************************)
C30_AttributesMirrorAbundances ==
    (constructed /\ raised = NoExc)
    => /\ DOMAIN members = DOMAIN abundances
       /\ \A k \in DOMAIN abundances : members[k] = abundances[k]
       /\ DOMAIN abundances = DOMAIN __init__(model_set).abundances
       /\ \A k \in DOMAIN abundances :
             getattr(Self, k) = [exc |-> NoExc, val |-> abundances[k]]

\* the Nomoto model after a normalisation and a move between grid points:
\* every value has changed since construction, the keys have not
C30_Witness ==
    /\ constructed /\ raised = NoExc /\ model_set = "nomoto_06_II"
    /\ has_normalization /\ total_metals = <<25, 1>>
    /\ call.op = "set_metallicity" /\ call.arg = <<1, 100>>
    /\ members["C"] = abundances["C"]
    /\ members["C_13"] = abundances["C_13"]
    /\ abundances["C"] # __init__(model_set).abundances["C"]
    /\ DOMAIN members = DOMAIN __init__(model_set).members

\* a label cut in front of its first letter, the letters first
SplitAtFirstLetter(name) ==
    LET first == CHOOSE i \in 1..Len(name) :
                    /\ IsAlpha(SubSeq(name, i, i))
                    /\ \A j \in 1..(i - 1) : ~IsAlpha(SubSeq(name, j, j))
    IN  SubSeq(name, first, Len(name)) \o "_" \o SubSeq(name, 1, first - 1)

(***************************************************************************)
(* C25: _parse_nomoto_individual_element gives "H_1" for "p", "H_2" for    *)
(* "d", and for a mass number followed by a symbol the symbol, "_" and the *)
(* number, cut in front of the first letter however many digits the        *)
(* number has: "3He" is "He_3" and "28Si" is "Si_28".                       *)
(***************************************************************************)
C25_LabelSplitsAtFirstLetter ==
    call.op = "_parse_nomoto_individual_element"
    => ret = IF call.name = "p" THEN "H_1"
             ELSE IF call.name = "d" THEN "H_2"
             ELSE SplitAtFirstLetter(call.name)

\* the numbers of a float, list or array argument, in order
Entries(value) == IF value.type = "float" THEN <<value.v>> ELSE value.v

\* the logarithms the tests give, -6 standing in at 0; nan (0/0) is what
\* numpy returns, with a warning and no error, below 0
ExpectedLog(x) ==
    CASE x = <<0, 1>>    -> <<-6, 1>>
      [] x = <<1, 1>>    -> <<0, 1>>
      [] x = <<1, 100>>  -> <<-2, 1>>
      [] x = <<1, 1000>> -> <<-3, 1>>
      [] x = <<100, 1>>  -> <<2, 1>>
      [] x[1] < 0        -> <<0, 0>>

(***************************************************************************)
(* C22: _metallicity_log returns -6 for 0 and the base-10 logarithm for    *)
(* every other number, entry by entry when it is given a list or an array, *)
(* and returns a value, not an error, for numbers below 0 or above 1: 100  *)
(* gives 2.                                                                *)
(***************************************************************************)
C22_LogWithFloorAtZero ==
    call.op = "_metallicity_log"
    => /\ Len(ret.v) = Len(Entries(call.arg))
       /\ \A i \in 1..Len(ret.v) :
             ret.v[i] = ExpectedLog(Entries(call.arg)[i])

\* the array of the tests with 100 in place of its last entry
C22_Witness ==
    /\ call.op = "_metallicity_log"
    /\ call.arg = NdArray(<< <<0, 1>>, <<1, 100>>, <<100, 1>> >>)
    /\ ret.v = << <<-6, 1>>, <<-2, 1>>, <<2, 1>> >>

(***************************************************************************)
(* C27 as stated: mass_fraction(k, z) and _metallicity_log(z) return a     *)
(* result of the shape of z: a float for a float, and for a sequence of n  *)
(* metallicities n values, the i-th being the result for the i-th          *)
(* metallicity alone.                                                      *)
(***************************************************************************)
C27_Original_ResultHasShapeOfArgument ==
    /\ call.op = "_metallicity_log"
       => /\ call.arg.type = "float" => ret.type = "float"
          /\ Len(ret.v) = Len(Entries(call.arg))
    /\ (call.op = "mass_fraction" /\ ret.exc = NoExc)
       => /\ call.arg[2].type = "float" => ret.val.type = "float"
          /\ Len(ret.val.v) = Len(Entries(call.arg[2]))

(***************************************************************************)
(* C27 amended: mass_fraction(k, z) and _metallicity_log(z) return a       *)
(* one-dimensional array with one entry per metallicity, a float z         *)
(* counting as one metallicity and giving an array of one entry, not a     *)
(* float; the i-th entry is the result for the i-th metallicity alone.     *)
(***************************************************************************)
C27_ResultIsArrayWithOneEntryPerMetallicity ==
    /\ call.op = "_metallicity_log"
       => /\ ret.type = "ndarray"
          /\ Len(ret.v) = Len(Entries(call.arg))
          /\ \A i \in 1..Len(ret.v) :
                ret.v[i] = _metallicity_log(Entries(call.arg)[i])
    /\ (call.op = "mass_fraction" /\ ret.exc = NoExc)
       => /\ ret.val.type = "ndarray"
          /\ Len(ret.val.v) = Len(Entries(call.arg[2]))
          /\ \A pos \in 1..Len(ret.val.v) :
                \E z \in {Entries(call.arg[2])[pos]} :
                \E s \in {__init__(call.name)} :
                   ret.val.v[pos] = mass_fraction(s, call.arg[1], z).val

\* the carbon fraction of the Nomoto model at three metallicities, one of
\* them between grid points, all different
C27_Witness ==
    /\ call.op = "mass_fraction" /\ call.name = "nomoto_06_II"
    /\ call.arg = <<"C", PyList(<< <<1, 100>>, <<0, 1>>, <<1, 1>> >>)>>
    /\ ret.exc = NoExc /\ Len(ret.val.v) = 3
    /\ ret.val.v[1] # ret.val.v[2] /\ ret.val.v[2] # ret.val.v[3]
    /\ ret.val.v[1] # ret.val.v[3]

AbundanceOps == {"z_on_h", "x_on_h", "x_on_fe", "log_z_over_z_sun"}

\* the two arguments differ in length, an entry of one is below 0 or above
\* 1, or a total of two entries at one position is above 1
BadMetallicities(Z_Ia, Z_II) ==
    \/ Len(Entries(Z_Ia)) # Len(Entries(Z_II))
    \/ \E Z \in {Z_Ia, Z_II} : \E pos \in 1..Len(Entries(Z)) :
          \/ Entries(Z)[pos][1] < 0
          \/ Entries(Z)[pos][1] > Entries(Z)[pos][2]
    \/ /\ Len(Entries(Z_Ia)) = Len(Entries(Z_II))
       /\ \E pos \in 1..Len(Entries(Z_Ia)) :
             RLess(<<1, 1>>, RAdd(Entries(Z_Ia)[pos], Entries(Z_II)[pos]))

(***************************************************************************)
(* C23: z_on_h, x_on_h, x_on_fe and log_z_over_z_sun raise ValueError,     *)
(* having made no mass_fraction lookup and computed no value, when Z_Ia    *)
(* and Z_II differ in length, when an entry of either is below 0 or above  *)
(* 1, or when a total Z_Ia + Z_II at one position is above 1.              *)
(***************************************************************************)
C23_BadMetallicitiesRaiseBeforeLookup ==
    (call.op \in AbundanceOps /\ BadMetallicities(call.arg[2], call.arg[3]))
    => /\ ret.exc = "ValueError"
       /\ ret.lookups = <<>>
       /\ ret.val = <<>>

\* x_on_fe on two-entry arguments whose entries are all within [0, 1] and
\* whose totals are 1.1: ValueError, for an element whose lookup would have
\* raised KeyError
C23_Witness ==
    /\ call.op = "x_on_fe" /\ call.name = "ww"
    /\ call.arg = <<"C", PyList(<< <<1, 10>>, <<1, 1>> >>),
                    NdArray(<< <<1, 1>>, <<1, 10>> >>)>>
    /\ ret.exc = "ValueError" /\ ret.lookups = <<>>

\* the operation op of the object self on one pair of metallicities
AbundanceOp(op, self, element, Z_Ia, Z_II) ==
    CASE op = "z_on_h" -> z_on_h(self, Z_Ia, Z_II)
      [] op = "x_on_h" -> x_on_h(self, element, Z_Ia, Z_II)
      [] op = "x_on_fe" -> x_on_fe(self, element, Z_Ia, Z_II)
      [] op = "log_z_over_z_sun" -> log_z_over_z_sun(self, Z_Ia, Z_II)

(***************************************************************************)
(* C24: when z_on_h, x_on_h, x_on_fe or log_z_over_z_sun returns, the      *)
(* result is a float if both metallicity arguments hold one value, given   *)
(* as floats or as one-element lists or arrays, and an array with one      *)
(* entry per position if they hold more than one value, the entry at a     *)
(* position being the float returned for the two metallicities there.      *)
(***************************************************************************)
C24_FloatForOneValueArrayForMore ==
    (call.op \in AbundanceOps /\ ret.exc = NoExc)
    => /\ (Len(Entries(call.arg[2])) = 1 /\ Len(Entries(call.arg[3])) = 1)
          => ret.val.type = "float"
       /\ (Len(Entries(call.arg[2])) > 1 /\ Len(Entries(call.arg[3])) > 1)
          => /\ ret.val.type = "ndarray"
             /\ Len(ret.val.v) = Len(Entries(call.arg[2]))
             /\ \A pos \in 1..Len(ret.val.v) :
                   \E Z_Ia \in {PyFloat(Entries(call.arg[2])[pos])} :
                   \E Z_II \in {PyFloat(Entries(call.arg[3])[pos])} :
                      PyFloat(ret.val.v[pos])
                         = AbundanceOp(call.op, abundance_obj, call.arg[1],
                                       Z_Ia, Z_II).val

\* x_on_h of iron on a one-element list and a float returns a float
C24_Witness ==
    /\ call.op = "x_on_h" /\ call.name = "nomoto"
    /\ call.arg = <<"Fe", PyList(<< <<1, 10>> >>), PyFloat(<<1, 10>>)>>
    /\ ret.exc = NoExc /\ ret.val.type = "float"
    /\ ret.lookups = << <<"yields_Ia", "Fe">>, <<"yields_II", "Fe">> >>

====
